---- MODULE Spec2Model ----
(***************************************************************************)
(* A model of the wolf request router: the template and regexp pattern     *)
(* engine (package router), the pooled middleware stack (package           *)
(* middleware) and the first-match dispatcher (package router/simple).     *)
(*                                                                         *)
(* Strings are sequences of one-character strings; indices follow Go       *)
(* (0-based, half-open slices) so that every slice expression can be read  *)
(* against the source.                                                     *)
(***************************************************************************)
EXTENDS Integers, Sequences, FiniteSets, TLC

VARIABLES
    \* ---- pattern engine harness (one pattern, one request, one context)
    pPat,       \* the parsed Pattern under test
    pPath,      \* r.URL.Path of the request
    pCtx,       \* the context.Context the caller holds
    pRes,       \* return value of the last Match/Run/Prefix ("none" before any)
    pOp,        \* last operation applied: "new", "Match", "Run", "Prefix"
    pRan,       \* TRUE once Run has been applied to this context
    \* ---- middleware stacks, their pools and items, the router, the threads
    stacks,     \* the MiddlewareStack objects, by stack id
    pools,      \* the sync.Pool objects ever created: pools[c] is the set of items in pool c
    items,      \* the StackItem objects ever created, by item id
    routes,     \* SimpleRouter.routes: method -> sequence of routes
    NotFound,   \* SimpleRouter.NotFound: TRUE when a handler is configured
    th,         \* the goroutines: th[t] holds the locals of thread t
    \* ---- route builder
    builders,   \* the builder objects ever created, by builder id
    scope,      \* the Route/Group calls whose callback is running, innermost last
    rd          \* outcome of the last RouteDefs call; "none" after a builder changed

patVars == <<pPat, pPath, pCtx, pRes, pOp, pRan>>

sysVars == <<stacks, pools, items, routes, NotFound, th>>

bldVars == <<builders, scope, rd>>

vars == <<pPat, pPath, pCtx, pRes, pOp, pRan, stacks, pools, items, routes, NotFound, th,
          builders, scope, rd>>

(***************************************************************************)
(* Bounds of the model.                                                    *)
(***************************************************************************)
MaxTplLen == 3
MaxPathLen == 3
MaxRuns == 2
NThreads == 2
MaxItems == 2
MaxMut == 2
MaxSeqMut == 4
MaxRelMut == 1
MaxRoutes == 2
MaxNodes == 3
MaxSpecs == 4
MaxUse == 2

(***************************************************************************)
(* Go string helpers.                                                      *)
(***************************************************************************)
At(s, i) == s[i + 1]

Slice(s, lo, hi) == SubSeq(s, lo + 1, hi)

HasPrefix(s, p) == Len(p) <= Len(s) /\ SubSeq(s, 1, Len(p)) = p

HasSuffix(s, p) == Len(p) <= Len(s) /\ SubSeq(s, Len(s) - Len(p) + 1, Len(s)) = p

RECURSIVE StringsUpTo(_, _)
StringsUpTo(alphabet, n) ==
    IF n = 0 THEN {<<>>}
    ELSE LET shorter == StringsUpTo(alphabet, n - 1)
         IN  shorter \cup {Append(s, ch) : s \in shorter, ch \in alphabet}

(***************************************************************************)
(* Contexts (router/context.go).  A context is the chain of WithValue      *)
(* overlays on context.Background(); the only key is urlParamKey, so the   *)
(* chain is the sequence of maps stored under it, innermost last.          *)
(* A Go map value is a record: nil |-> TRUE is the nil map.                *)
(***************************************************************************)
Background == <<>>

NilMap == [nil |-> TRUE, m |-> <<>>]

MakeMap == [nil |-> FALSE, m |-> <<>>]

MapSet(mp, k, v) == [nil |-> FALSE, m |-> (k :> v) @@ mp.m]

MapHas(mp, k) == k \in DOMAIN mp.m

SetURLParams(ctx, matches) == Append(ctx, matches)

GetURLParams(ctx) == IF ctx = Background THEN NilMap ELSE ctx[Len(ctx)]

(***************************************************************************)
(* StringPattern (Sinatra-style templates).                                *)
(***************************************************************************)
bc == {"/", ".", ";", ","}

\* End of the run of non-break characters that starts at index j.
RECURSIVE NameEnd(_, _)
NameEnd(s, j) ==
    IF j >= Len(s) \/ At(s, j) \in bc THEN j ELSE NameEnd(s, j + 1)

\* patternRe.FindAllStringSubmatchIndex(s, -1): the leftmost, non-overlapping
\* matches of [/.;,]:([^/.;,]+), each given by its group (a, b).
RECURSIVE FindAllFrom(_, _)
FindAllFrom(s, p) ==
    IF p + 2 >= Len(s) THEN <<>>
    ELSE IF At(s, p) \in bc /\ At(s, p + 1) = ":" /\ At(s, p + 2) \notin bc
         THEN LET b == NameEnd(s, p + 2)
              IN  <<[a |-> p + 2, b |-> b]>> \o FindAllFrom(s, b)
         ELSE FindAllFrom(s, p + 1)

patternRe(s) == FindAllFrom(s, 0)

\* A break character that is missing for a name at the end of the template.
BreakAtOrNone(s, b) == IF b = Len(s) THEN "" ELSE At(s, b)

\* The break character of the name that ends at b: "/" at the end of the
\* template, the character after the name otherwise.
BreakAt(s, b) == IF b = Len(s) THEN "/" ELSE At(s, b)

\* The loop of ParseStringPattern: literal i runs from the end of the
\* previous name up to (not including) the colon of name i.
RECURSIVE ParseLoop(_, _, _, _, _)
ParseLoop(s, matches, i, n, acc) ==
    IF i > Len(matches) THEN [acc EXCEPT !.literals = Append(@, Slice(s, n, Len(s)))]
    ELSE LET a == matches[i].a
             b == matches[i].b
         IN  ParseLoop(s, matches, i + 1, b,
                 [acc EXCEPT !.literals = Append(@, Slice(s, n, a - 1)),
                             !.pats     = Append(@, Slice(s, a, b)),
                             !.breaks   = Append(@, BreakAt(s, b))])

ParseStringPattern(raw) ==
    LET wildcard == HasSuffix(raw, <<"/", "*">>)
        s        == IF wildcard THEN Slice(raw, 0, Len(raw) - 1) ELSE raw
    IN  ParseLoop(s, patternRe(s), 1, 0,
            [kind |-> "string", raw |-> raw, pats |-> <<>>, breaks |-> <<>>,
             literals |-> <<>>, wildcard |-> wildcard])

\* A scan that stops at the break character only.
RECURSIVE ScanVarBreakOnly(_, _, _)
ScanVarBreakOnly(path, brk, m) ==
    IF m >= Len(path) \/ At(path, m) = brk THEN m
    ELSE ScanVarBreakOnly(path, brk, m + 1)

\* The scan of one variable: the first index at which path holds the break
\* character or a slash (len(path) when there is none).
RECURSIVE ScanVar(_, _, _)
ScanVar(path, brk, m) ==
    IF m >= Len(path) \/ At(path, m) = brk \/ At(path, m) = "/" THEN m
    ELSE ScanVar(path, brk, m + 1)

\* A capture that takes the character the scan stopped at with it.
CapturedWithBreak(path, m) == Slice(path, 0, IF m < Len(path) THEN m + 1 ELSE m)

\* matches[pat] = path[:m]
Captured(path, m) == Slice(path, 0, m)

\* A check that lets the empty capture through.
EmptyCaptureAllowed(m) == FALSE

\* "Empty strings are not matches": the scan consumed nothing.
EmptyCapture(m) == m = 0

\* The for loop of StringPattern.match over s.pats, from variable i (0-based).
RECURSIVE MatchVars(_, _, _, _, _)
MatchVars(s, i, path, matches, dryrun) ==
    IF i >= Len(s.pats) THEN [ok |-> TRUE, path |-> path, matches |-> matches]
    ELSE LET sli == s.literals[i + 1]
         IN  IF ~HasPrefix(path, sli)
             THEN [ok |-> FALSE, path |-> path, matches |-> matches]
             ELSE LET rest == Slice(path, Len(sli), Len(path))
                      m    == ScanVar(rest, s.breaks[i + 1], 0)
                  IN  IF EmptyCapture(m)
                      THEN [ok |-> FALSE, path |-> rest, matches |-> matches]
                      ELSE MatchVars(s, i + 1, Slice(rest, m, Len(rest)),
                               IF dryrun THEN matches
                               ELSE MapSet(matches, s.pats[i + 1], Captured(rest, m)),
                               dryrun)

\* A wildcard value that starts after the last literal.
WildcardStartAfter(tail) == Len(tail)

\* matches["*"] = path[len(tail)-1:]: the index the wildcard value starts at.
WildcardStart(tail) == Len(tail) - 1

\* A comparison of the last literal that accepts any continuation.
TailOkPrefix(wildcard, path, tail) == HasPrefix(path, tail)

\* The comparison of the last literal: a prefix of what is left of the path
\* for a wildcard pattern, all of it otherwise.
TailOk(wildcard, path, tail) ==
    IF wildcard THEN HasPrefix(path, tail) ELSE path = tail

\* A mismatch that stores the variables scanned so far.
MismatchBinds(ctx, matches) ==
    IF matches.nil \/ DOMAIN matches.m = {} THEN ctx ELSE SetURLParams(ctx, matches)

\* return false: *c is left as it is, whatever matches holds.
Mismatch(ctx, matches) == ctx

\* StringPattern.match(r, c, dryrun).  hasCtx is c != nil; the result is the
\* returned bool and the value *c holds afterwards.
StringMatch(s, path, hasCtx, ctx, dryrun) ==
    LET init  == IF ~dryrun /\ (s.wildcard \/ Len(s.pats) # 0) THEN MakeMap ELSE NilMap
        scan  == MatchVars(s, 0, path, init, dryrun)
        tail  == s.literals[Len(s.pats) + 1]
        tailOk == TailOk(s.wildcard, scan.path, tail)
        matches == IF s.wildcard /\ ~dryrun /\ scan.ok /\ tailOk
                   THEN MapSet(scan.matches, <<"*">>,
                               Slice(scan.path, WildcardStart(tail), Len(scan.path)))
                   ELSE scan.matches
    IN  IF ~scan.ok \/ ~tailOk THEN [ok |-> FALSE, ctx |-> Mismatch(ctx, matches)]
        ELSE IF ~hasCtx \/ dryrun THEN [ok |-> TRUE, ctx |-> ctx]
        ELSE [ok |-> TRUE, ctx |-> SetURLParams(ctx, matches)]

StringPatternMatch(s, path, ctx) == StringMatch(s, path, FALSE, ctx, TRUE)

StringPatternRun(s, path, ctx) == StringMatch(s, path, TRUE, ctx, FALSE)

\* A prefix taken from the last literal.
StringPatternPrefixLast(s) == s.literals[Len(s.literals)]

StringPatternPrefix(s) == s.literals[1]

(***************************************************************************)
(* RegexpPattern.  The regexp library is outside the repository; a regular *)
(* expression is modelled by its syntax tree, restricted to the shapes the *)
(* tests use: an optional start anchor, a sequence of pieces, an optional  *)
(* end anchor.  A piece is a literal character or a capture group holding  *)
(* a greedy character-class repetition, possibly optional as a whole.      *)
(* The top level of an expression may be an alternation: the field or      *)
(* holds the expression to the right of the first bar, if any.             *)
(***************************************************************************)
Lit(ch) == [k |-> "lit", ch |-> ch, name |-> <<>>, cls |-> {}, opt |-> FALSE]

Cap(name, cls) == [k |-> "cap", ch |-> "", name |-> name, cls |-> cls, opt |-> FALSE]

OptCap(name, cls) == [k |-> "cap", ch |-> "", name |-> name, cls |-> cls, opt |-> TRUE]

Regexp(begin, pieces, end) == [begin |-> begin, pieces |-> pieces, end |-> end, or |-> <<>>]

\* left|right, for a left operand that is not an alternation itself.
Alt(left, right) == [left EXCEPT !.or = <<right>>]

\* The alternatives of the top level, leftmost first.
RECURSIVE Branches(_)
Branches(re) ==
    <<[re EXCEPT !.or = <<>>]>> \o (IF re.or = <<>> THEN <<>> ELSE Branches(re.or[1]))

Captures(pieces) == SelectSeq(pieces, LAMBDA pc : pc.k = "cap")

\* The number of capture groups in alternatives from.. of bs.
RECURSIVE CapCount(_, _)
CapCount(bs, from) ==
    IF from > Len(bs) THEN 0 ELSE Len(Captures(bs[from].pieces)) + CapCount(bs, from + 1)

Empties(n) == [i \in 1..n |-> <<>>]

\* Length of the run of characters of class cls at pos.
RECURSIVE RunLen(_, _, _)
RunLen(path, pos, cls) ==
    IF pos >= Len(path) \/ At(path, pos) \notin cls THEN 0
    ELSE 1 + RunLen(path, pos + 1, cls)

\* Backtracking match of pieces i.. at pos (leftmost-first, greedy): the
\* submatch list grows by one entry per capture group; a group that takes
\* no part is reported as the empty string, as FindStringSubmatch does.
RECURSIVE MatchPieces(_, _, _, _, _)
RECURSIVE TryLen(_, _, _, _, _, _)
MatchPieces(re, i, path, pos, groups) ==
    IF i > Len(re.pieces)
    THEN IF re.end /\ pos # Len(path) THEN [ok |-> FALSE, groups |-> groups]
         ELSE [ok |-> TRUE, groups |-> groups]
    ELSE LET pc == re.pieces[i]
         IN  IF pc.k = "lit"
             THEN IF pos < Len(path) /\ At(path, pos) = pc.ch
                  THEN MatchPieces(re, i + 1, path, pos + 1, groups)
                  ELSE [ok |-> FALSE, groups |-> groups]
             ELSE TryLen(re, i, path, pos, groups, RunLen(path, pos, pc.cls))

TryLen(re, i, path, pos, groups, n) ==
    IF n = 0
    THEN IF re.pieces[i].opt
         THEN MatchPieces(re, i + 1, path, pos, Append(groups, <<>>))
         ELSE [ok |-> FALSE, groups |-> groups]
    ELSE LET r == MatchPieces(re, i + 1, path, pos + n,
                              Append(groups, Slice(path, pos, pos + n)))
         IN  IF r.ok THEN r ELSE TryLen(re, i, path, pos, groups, n - 1)

\* The alternatives k.. of bs tried in order at position from; an
\* alternative that opens with the start-of-text anchor can match at
\* position 0 only.  The groups of the alternatives that take no part are
\* reported as empty strings; before counts the groups of alternatives 1..k-1.
RECURSIVE MatchBranches(_, _, _, _, _)
MatchBranches(bs, k, path, from, before) ==
    IF k > Len(bs) THEN [ok |-> FALSE, groups |-> <<>>]
    ELSE LET r == IF bs[k].begin /\ from # 0 THEN [ok |-> FALSE, groups |-> <<>>]
                  ELSE MatchPieces(bs[k], 1, path, from, <<>>)
         IN  IF r.ok
             THEN [ok |-> TRUE,
                   groups |-> Empties(before) \o r.groups \o Empties(CapCount(bs, k + 1))]
             ELSE MatchBranches(bs, k + 1, path, from,
                                before + Len(Captures(bs[k].pieces)))

\* Match attempts at start positions from.., leftmost first.
RECURSIVE FindFrom(_, _, _)
FindFrom(re, path, from) ==
    LET r == MatchBranches(Branches(re), 1, path, from, 0)
    IN  IF r.ok THEN [ok |-> TRUE, groups |-> <<Slice(path, from, Len(path))>> \o r.groups]
        ELSE IF from >= Len(path) THEN [ok |-> FALSE, groups |-> <<>>]
        ELSE FindFrom(re, path, from + 1)

\* re.FindStringSubmatch(path): nil (ok = FALSE) or the submatches, entry 1
\* being group 0.  Only the count and groups 1.. are read by the callers.
FindStringSubmatch(re, path) == FindFrom(re, path, 0)

\* re.SubexpNames(): "" for group 0 and for every unnamed group.
RECURSIVE BranchCaptures(_, _)
BranchCaptures(bs, k) ==
    IF k > Len(bs) THEN <<>> ELSE Captures(bs[k].pieces) \o BranchCaptures(bs, k + 1)

SubexpNames(re) ==
    LET caps == BranchCaptures(Branches(re), 1)
    IN  <<<<>>>> \o [i \in 1..Len(caps) |-> caps[i].name]

Digits == <<"0", "1", "2", "3", "4", "5", "6", "7", "8", "9">>

\* fmt.Sprintf("%d", i) for i >= 0.
RECURSIVE Itoa(_)
Itoa(i) == IF i < 10 THEN <<Digits[i + 1]>> ELSE Append(Itoa(i \div 10), Digits[(i % 10) + 1])

\* The literal prefix sketchOnRegex derives: the leading single-rune
\* instructions, stopping at the first class, alternative or empty-width
\* instruction that is not at the start.
RECURSIVE LiteralRun(_, _)
LiteralRun(pieces, i) ==
    IF i > Len(pieces) \/ pieces[i].k # "lit" THEN <<>>
    ELSE <<pieces[i].ch>> \o LiteralRun(pieces, i + 1)

\* The longest common prefix of two strings.
RECURSIVE CommonPrefix(_, _)
CommonPrefix(a, b) ==
    IF a = <<>> \/ b = <<>> \/ a[1] # b[1] THEN <<>>
    ELSE <<a[1]>> \o CommonPrefix(SubSeq(a, 2, Len(a)), SubSeq(b, 2, Len(b)))

\* The prefix loop of sketchOnRegex over the compiled program.  The program
\* of an alternation opens with the literal text the parser factored out of
\* its alternatives (none when one of them opens with an anchor), then
\* branches, which ends the loop.
RECURSIVE ProgPrefix(_, _)
ProgPrefix(bs, k) ==
    IF k = Len(bs) THEN LiteralRun(bs[k].pieces, 1)
    ELSE IF bs[k].begin \/ bs[k + 1].begin THEN <<>>
    ELSE CommonPrefix(LiteralRun(bs[k].pieces, 1), ProgPrefix(bs, k + 1))

\* p.StartCond()&syntax.EmptyBeginText != 0: every path from the start of
\* the program passes the start-of-text anchor before anything else.  The
\* program of an alternation starts with a branch, which reports no
\* condition.
StartCond(re) == re.or = <<>> /\ re.begin

\* regexp.Compile(`\A` + rawRe): the anchor is put in front of the text of
\* the expression, so it belongs to the leftmost alternative.
PrependBeginText(re) == [re EXCEPT !.begin = TRUE]

\* sketchOnRegex: the left-anchored expression and its prefix.
sketchOnRegex(re) ==
    [re |-> IF StartCond(re) THEN re ELSE PrependBeginText(re),
     prefix |-> ProgPrefix(Branches(re), 1)]

\* A synthetic name that counts from the group after.
SyntheticNameNext(i) == <<"$">> \o Itoa(i + 1)

\* fmt.Sprintf("$%d", i), i being the index into SubexpNames().
SyntheticName(i) == <<"$">> \o Itoa(i)

ParseRegexpPattern(re) ==
    LET sk     == sketchOnRegex(re)
        rnames == SubexpNames(sk.re)
    IN  [kind |-> "regexp", re |-> sk.re, prefix |-> sk.prefix,
         names |-> [i \in 1..Len(rnames) |->
                       IF rnames[i] = <<>> THEN SyntheticName(i - 1) ELSE rnames[i]]]

\* The loop of RegexpPattern.match that fills params from groups 1..
RECURSIVE RegexpParams(_, _, _, _)
RegexpParams(p, matches, i, params) ==
    IF i >= Len(matches) THEN params
    ELSE RegexpParams(p, matches, i + 1, MapSet(params, p.names[i + 1], matches[i + 1]))

\* RegexpPattern.match(r, c, dryrun); hasCtx is c != nil.
RegexpMatch(p, path, hasCtx, ctx, dryrun) ==
    LET found == FindStringSubmatch(p.re, path)
    IN  IF ~found.ok \/ Len(found.groups) = 0 THEN [ok |-> FALSE, ctx |-> ctx]
        ELSE IF ~hasCtx \/ dryrun \/ Len(found.groups) = 1 THEN [ok |-> TRUE, ctx |-> ctx]
        ELSE [ok |-> TRUE,
              ctx |-> SetURLParams(ctx, RegexpParams(p, found.groups, 1, MakeMap))]

\* RegexpPattern.Match(r, c) hands its context on with dryrun = false.
RegexpPatternMatch(p, path, hasCtx, ctx) == RegexpMatch(p, path, hasCtx, ctx, FALSE)

RegexpPatternRun(p, path, ctx) == RegexpMatch(p, path, TRUE, ctx, FALSE)

RegexpPatternPrefix(p) == p.prefix

(***************************************************************************)
(* MiddlewareStack.                                                        *)
(*                                                                         *)
(* A middleware value is identified by name; Kind gives its Go type.       *)
(* A composed http.Handler is the list of the canonical middleware that    *)
(* wrap the final function, outermost first.                               *)
(***************************************************************************)
Middlewares == {"m1", "m2", "bad"}

\* The dynamic type of a MiddlewareType value.
Kind(mw) ==
    CASE mw = "m1" -> "func(http.Handler) http.Handler"
      [] mw = "m2" -> "func(*context.Context, http.Handler) http.Handler"
      [] OTHER     -> "func(int) int"

ValidMiddlewares == {mw \in Middlewares : Kind(mw) # "func(int) int"}

\* makeCanonical: the canonical function, or a panic for any other type.
makeCanonical(mw) ==
    CASE Kind(mw) = "func(http.Handler) http.Handler" ->
             [ok |-> TRUE, fn |-> [mw |-> mw, lifted |-> TRUE]]
      [] Kind(mw) = "func(*context.Context, http.Handler) http.Handler" ->
             [ok |-> TRUE, fn |-> [mw |-> mw, lifted |-> FALSE]]
      [] OTHER -> [ok |-> FALSE, fn |-> [mw |-> mw, lifted |-> FALSE]]

\* funcEqual: identity of two middleware values.
funcEqual(a, b) == a = b

NoThread == 0

NoPool == 0

NoItem == 0

\* MiddlewareStack.push, without locking or resetting the cache: orig is
\* appended before makeCanonical can panic.  The ghost reg lists the
\* middleware registered successfully and not removed since.
push(m, mw) ==
    LET canon == makeCanonical(mw)
        m1    == [m EXCEPT !.orig = Append(@, mw)]
    IN  IF ~canon.ok THEN [ok |-> FALSE, m |-> m1]
        ELSE [ok |-> TRUE,
              m |-> [m1 EXCEPT !.funcs = Append(@, canon.fn), !.reg = Append(@, mw)]]

\* The index search of Remove (0-based; -1 when absent).
RECURSIVE FindIdx(_, _, _)
FindIdx(orig, mw, i) ==
    IF i >= Len(orig) THEN -1
    ELSE IF funcEqual(At(orig, i), mw) THEN i
    ELSE FindIdx(orig, mw, i + 1)

\* append(s[:idx], s[idx+1:]...)
RemoveAt(s, idx) == Slice(s, 0, idx) \o Slice(s, idx + 1, Len(s))

\* The list without the first occurrence of mw.
RemoveFirst(s, mw) ==
    LET idx == FindIdx(s, mw, 0) IN IF idx < 0 THEN s ELSE RemoveAt(s, idx)

\* The body of Remove between Lock and resetPool.  res is "found",
\* "notfound" (ErrMiddlewareNotFound) or "panic" (slice bounds out of range
\* in m.funcs[idx+1:], after m.orig has been assigned).
removeLists(m, mw) ==
    LET idx == FindIdx(m.orig, mw, 0)
    IN  IF idx < 0 THEN [res |-> "notfound", m |-> m]
        ELSE LET m1 == [m EXCEPT !.orig = RemoveAt(@, idx)]
             IN  IF idx + 1 > Len(m.funcs) THEN [res |-> "panic", m |-> m1]
                 ELSE [res |-> "found",
                       m |-> [m1 EXCEPT !.funcs = RemoveAt(@, idx),
                                        !.reg = RemoveFirst(@, mw),
                                        !.removed = TRUE,
                                        !.stray = @ \/ FindIdx(m.reg, mw, 0) < 0]]

\* A composition in which the last-registered middleware ends up outermost.
RECURSIVE ApplyForward(_, _, _)
ApplyForward(funcs, i, h) ==
    IF i < 0 THEN h
    ELSE ApplyForward(funcs, i - 1, [h EXCEPT !.mws = Append(@, At(funcs, i))])

\* The loop of newResolved: for i := len(m.funcs) - 1; i >= 0; i-- wraps
\* the handler built so far in m.funcs[i].
RECURSIVE ApplyAll(_, _, _)
ApplyAll(funcs, i, h) ==
    IF i < 0 THEN h
    ELSE ApplyAll(funcs, i - 1, [h EXCEPT !.mws = <<At(funcs, i)>> \o @])

\* newResolved: a StackItem on the stack's base context, labelled with the
\* current pool, whose handler is the final function wrapped in all
\* middleware.  old and used are ghosts: a Push or Remove has returned since
\* the item was composed; a request has bound its parameters into the
\* item's context slot.
newResolved(m) ==
    [Context |-> m.BaseContext,
     pool    |-> m.cache,
     Handler |-> ApplyAll(m.funcs, Len(m.funcs) - 1, [mws |-> <<>>, final |-> m.final]),
     old     |-> FALSE,
     used    |-> FALSE,
     puts    |-> 0]

\* middleware.New(handler, middleware): pushes every middleware and creates
\* pool c.  Ghosts: removed tells that a Remove has deleted an entry of both
\* lists, stray that one did so for a value that was not registered; budget
\* is the number of list-changing Push and Remove calls the callers still
\* make.
RECURSIVE PushAll(_, _, _)
PushAll(m, middleware, i) ==
    IF i > Len(middleware) THEN [ok |-> TRUE, m |-> m]
    ELSE LET r == push(m, middleware[i])
         IN  IF ~r.ok THEN r ELSE PushAll(r.m, middleware, i + 1)

\* middleware.New(handler, middleware): the stack with pool c, or the panic
\* of the first push that fails, which leaves the caller without a stack.
MiddlewareNew(handler, middleware, c) ==
    LET r == PushAll([final |-> handler, BaseContext |-> Background, orig |-> <<>>,
                      funcs |-> <<>>, cache |-> NoPool, mu |-> NoThread,
                      reg |-> <<>>, removed |-> FALSE, stray |-> FALSE, budget |-> 0],
                     middleware, 1)
    IN  [ok |-> r.ok, m |-> [r.m EXCEPT !.cache = c]]

\* The stack middleware.New returns.
NewStack(handler, middleware, c) == MiddlewareNew(handler, middleware, c).m

\* The pool Release hands the item to.
ReleaseTargetCurrent(s, m) == m.cache

ReleaseTarget(s, m) == s.pool

\* A Release that leaves the item's context as the request left it.
ReleaseContextKept(s, m) == s.Context

\* Release: s.Context = m.BaseContext
ReleaseContext(s, m) == m.BaseContext

\* Release's test for an item of an older pool generation.
Stale(s, m) == s.pool # m.cache

\* The context the final function is called with: the item's slot, read
\* when the chain reaches the end.
FinalContextBase(s, m) == m.BaseContext

FinalContext(s, m) == s.Context

\* stack.Handler.ServeHTTP: the pre-logic of each middleware runs in
\* wrapping order; the middleware at position stop (0: none) returns
\* without calling its inner handler.  The result is the list of calls.
RECURSIVE ServeHTTP(_, _, _)
ServeHTTP(h, i, stop) ==
    IF i > Len(h.mws) THEN <<h.final>>
    ELSE IF i = stop THEN <<h.mws[i].mw>>
    ELSE <<h.mws[i].mw>> \o ServeHTTP(h, i + 1, stop)

(***************************************************************************)
(* The pattern harness: the inputs of pattern_test.go, and every template  *)
(* and path over a small alphabet.                                         *)
(***************************************************************************)
TplAlphabet == {"/", ":", "a", ".", "*"}

PathAlphabet == {"/", ".", "a"}

TestTemplates ==
    { <<"/", "a">>,                                         \* "/hello"
      <<"/", "a", "/", ":", "n">>,                          \* "/hello/:name"
      <<"/", "a", "/", ":", "a", "/", "b", "/", ":", "b">>, \* "/a/:a/b/:b"
      <<"/", "a", "/", ":", "b", ".", ":", "c">>,           \* "/a/:b.:c"
      <<"/", "u", "/", ":", "u", "/", "*">>,                \* "/user/:user/*"
      <<"/", "u", "/", ":", "u", "/", "f", "/", "*">> }     \* "/user/:user/friends/*"

TestPaths ==
    { <<"/", "a", "/", "w">>,                               \* "/hello/world"
      <<"/", "a", "/", "m", ".", "w", ";", "w">>,           \* "/hello/my.world;wow"
      <<"/", "a", "/", "m", "/", "l">>,                     \* "/hello/my/love"
      <<"/", "a", "/", "1", "/", "b", "/", "2">>,           \* "/a/1/b/2"
      <<"/", "a", "/", "/", "b", "/">>,                     \* "/a//b/"
      <<"/", "a", "/", "1", "/", "b", "/", "2", "/", "3">>, \* "/a/1/b/2/3"
      <<"/", "a", "/", "c", ".", "g">>,                     \* "/a/cat.gif"
      <<"/", "a", "/", "c", ".", "t", ".", "g">>,           \* "/a/cat.tar.gz"
      <<"/", "a", "/", "c">>,                               \* "/a/cat"
      <<"/", "a", "/", "c", "/", "g">>,                     \* "/a/cat/gif"
      <<"/", "a", "/", "c", ".">>,                          \* "/a/cat."
      <<"/", "a", "/", "c", "/", "d", ".", "g">>,           \* "/a/cat/dog.gif"
      <<"/", "u", "/", "b", "/">>,                          \* "/user/bob/"
      <<"/", "u", "/", "b", "/", "f", "/", "1">>,           \* "/user/bob/friends/123"
      <<"/", "u", "/", "b">>,                               \* "/user/bob"
      <<"/", "u", "/">>,                                    \* "/user/"
      <<"/", "u", "/", "/">>,                               \* "/user//"
      <<"/", "u", "/", "b", "/", "f", "/">>,                \* "/user/bob/friends/"
      <<"/", "u", "/", "b", "/", "e">>,                     \* "/user/bob/enemies"
      <<"/", "a", "/">>,                                    \* "/hello/"
      <<"/", "e">>,                                         \* "/hell"
      <<"/", "w">>,                                         \* "/world"
      <<"/", "w", "/", "a">>,                               \* "/world/hello"
      <<"/", "m", "/", "w">>,                               \* "/my/world"
      <<"/", "a", "/", "1", "/", "2">>,                     \* "/a/1/2"
      <<"/", "m", "/", "a", "/", "w">> }                    \* "/my/hello/world"

Lower == {"a", "b", "c", "d", "e", "f", "g", "l", "m", "u", "w"}

Digit == {"0", "1", "2", "3"}

TestRegexps ==
    { Regexp(TRUE, <<Lit("/"), Lit("a")>>, TRUE),                          \* ^/hello$
      Regexp(TRUE, <<Lit("/"), Lit("a"), Lit("/"), Cap(<<"n">>, Lower)>>, TRUE),
                                                                          \* ^/hello/(?P<name>[a-z]+)$
      Regexp(TRUE, <<Lit("/"), Lit("a"), Lit("/"), Cap(<<"a">>, Digit),
                     Lit("/"), Lit("b"), Lit("/"), Cap(<<"b">>, Digit)>>, TRUE),
                                                                          \* two named digit groups, as in ^/a(?P<a>\d+)/b(?P<b>\d+)/?$
      Regexp(TRUE, <<Lit("/"), Lit("a"), Lit("/"), Cap(<<>>, Lower)>>, TRUE),
                                                                          \* ^/hello/([a-z]+)$
      Regexp(TRUE, <<Lit("/"), Cap(<<"n">>, Lower), Lit("/"), Cap(<<>>, Digit),
                     Lit("/"), Cap(<<"b">>, Digit)>>, TRUE),
                                                     \* ^/(?P<n>[a-z]+)/(\d+)/(?P<b>\d+)$
      Regexp(FALSE, <<Lit("/"), Lit("a")>>, FALSE),                       \* /hello
      Alt(Regexp(FALSE, <<Lit("/"), Lit("a")>>, FALSE),
          Regexp(FALSE, <<Lit("/"), Lit("w")>>, FALSE)),                  \* /hello|/world
      Alt(Regexp(TRUE, <<Lit("/"), Lit("a")>>, TRUE),
          Regexp(TRUE, <<Lit("/"), Lit("w")>>, TRUE)),                    \* ^/hello$|^/world$
      Regexp(TRUE, <<Lit("/"), Lit("a"), Lit("/"), OptCap(<<"n">>, Digit)>>, TRUE),
                                                                          \* ^/hello/(?P<n>\d+)?$
      Alt(Regexp(TRUE, <<Lit("/"), Lit("a"), Lit("/"), Cap(<<"n">>, Lower)>>, TRUE),
          Regexp(TRUE, <<Lit("/"), Lit("w"), Lit("/"), Cap(<<>>, Lower)>>, TRUE)),
                                                     \* ^/hello/(?P<n>[a-z]+)$|^/world/([a-z]+)$
      Alt(Regexp(FALSE, <<Lit("/"), Lit("a"), Lit("/"), Lit("c")>>, FALSE),
          Regexp(FALSE, <<Lit("/"), Lit("a"), Lit("/"), Lit("w")>>, FALSE)) }
                                                     \* /hello/cat|/hello/world

Templates == TestTemplates \cup StringsUpTo(TplAlphabet, MaxTplLen)

Paths == TestPaths \cup StringsUpTo(PathAlphabet, MaxPathLen)

Patterns ==
    {ParseStringPattern(t) : t \in Templates} \cup {ParseRegexpPattern(re) : re \in TestRegexps}

\* The Pattern interface, dispatched on the implementation.
PatternMatch(p, path, hasCtx, ctx) ==
    IF p.kind = "string" THEN StringPatternMatch(p, path, ctx)
    ELSE RegexpPatternMatch(p, path, hasCtx, ctx)

PatternRun(p, path, ctx) ==
    IF p.kind = "string" THEN StringPatternRun(p, path, ctx)
    ELSE RegexpPatternRun(p, path, ctx)

\* The state of the part of the system a specification leaves out.
PatIdle ==
    /\ pPat = ParseStringPattern(<<"/">>)
    /\ pPath = <<>>
    /\ pCtx = Background
    /\ pRes = "none"
    /\ pOp = "new"
    /\ pRan = FALSE

PatInit ==
    /\ pPat \in Patterns
    /\ pPath \in Paths
    /\ pCtx = Background
    /\ pRes = "none"
    /\ pOp = "new"
    /\ pRan = FALSE

PatternPrefix(p) ==
    IF p.kind = "string" THEN StringPatternPrefix(p) ELSE RegexpPatternPrefix(p)

\* result := p.Prefix()
PatPrefix ==
    /\ pRes' = PatternPrefix(pPat)
    /\ pOp' = "Prefix"
    /\ UNCHANGED <<pPat, pPath, pCtx, pRan>>
    /\ UNCHANGED sysVars
    /\ UNCHANGED bldVars

\* result := p.Match(r) (a template) or p.Match(r, c) (a regexp, whose
\* caller hands it a context pointer or nil).
PatMatch ==
    \E hasCtx \in BOOLEAN :
        LET r == PatternMatch(pPat, pPath, hasCtx, pCtx)
        IN  /\ Len(pCtx) < MaxRuns
            /\ pRes' = r.ok
            /\ pCtx' = r.ctx
            /\ pOp' = "Match"
            /\ UNCHANGED <<pPat, pPath, pRan>>
            /\ UNCHANGED sysVars
            /\ UNCHANGED bldVars

\* p.Run(r, &c)
PatRun ==
    LET r == PatternRun(pPat, pPath, pCtx)
    IN  /\ Len(pCtx) < MaxRuns
        /\ pRes' = r.ok
        /\ pCtx' = r.ctx
        /\ pOp' = "Run"
        /\ pRan' = TRUE
        /\ UNCHANGED <<pPat, pPath>>
        /\ UNCHANGED sysVars
        /\ UNCHANGED bldVars

PatNext == PatMatch \/ PatRun \/ PatPrefix


(***************************************************************************)
(* The inputs of the router and stack specifications.                      *)
(***************************************************************************)
\* A PatternType value: its dynamic type and, for a string, its text.
StringValue(s) == [type |-> "string", v |-> s]

IntValue == [type |-> "int", v |-> <<>>]

\* The dynamic type of a HandlerType value.
HandlerKind(h) ==
    CASE h = "h1" -> "func(context.Context, http.ResponseWriter, *http.Request)"
      [] h = "h2" -> "func(http.ResponseWriter, *http.Request)"
      [] h = "h3" -> "http.Handler"
      [] OTHER    -> "int"

RouteDefChoices ==
    { [Method |-> "GET",  Pattern |-> StringValue(<<"/", "a", "/", ":", "x">>),
       Handler |-> "h1", Middleware |-> <<"m1", "m2">>],
      [Method |-> "GET",  Pattern |-> StringValue(<<"/", ":", "y", "/", "b">>),
       Handler |-> "h2", Middleware |-> <<>>],
      [Method |-> "POST", Pattern |-> StringValue(<<"/", "a", "/", ":", "x">>),
       Handler |-> "h3", Middleware |-> <<"m2">>] }

\* Route definitions that hold a value of no accepted type: a pattern, a
\* handler, a middleware.
RouteDefRejects ==
    { [Method |-> "GET", Pattern |-> IntValue, Handler |-> "h1", Middleware |-> <<>>],
      [Method |-> "GET", Pattern |-> StringValue(<<"/", "c">>), Handler |-> "h4",
       Middleware |-> <<>>],
      [Method |-> "GET", Pattern |-> StringValue(<<"/", "c">>), Handler |-> "h1",
       Middleware |-> <<"m1", "bad">>] }

RouteDefLists ==
    UNION {[1..n -> RouteDefChoices] : n \in 0..MaxRoutes}
        \cup {<<d>> : d \in RouteDefRejects}
        \cup {<<c, d>> : c \in RouteDefChoices, d \in RouteDefRejects}

RouterPaths == { <<"/", "a", "/", "b">>, <<"/", "a", "/", "c">>, <<"/", "c">> }

InitialMiddleware == { <<>>, <<"m1", "m2">> }

(***************************************************************************)
(* SimpleRouter.                                                           *)
(***************************************************************************)
Methods == {"GET", "POST"}

\* ParsePattern: the parsed pattern of a string (the routes of the model are
\* templates), or the panic for a value of an unexpected type.
ParsePattern(raw) ==
    IF raw.type = "string" THEN [ok |-> TRUE, p |-> ParseStringPattern(raw.v)]
    ELSE [ok |-> FALSE, p |-> ParseStringPattern(<<>>)]

\* MakeHandler: the Handler of a value of an accepted type, or the panic.
MakeHandler(h) == [ok |-> HandlerKind(h) # "int", h |-> h]

\* What simple.New leaves when it panics: no router.
NoRouter == [panicked |-> TRUE]

\* The loop of simple.New: route i gets the parsed pattern, the handler and
\* its own middleware stack (stack id i), appended to its method's list.
\* A panic of ParsePattern, MakeHandler or middleware.New ends New.
RECURSIVE NewLoop(_, _, _)
NewLoop(routeDefs, i, methods) ==
    IF i > Len(routeDefs) THEN [ok |-> TRUE, routes |-> methods]
    ELSE LET def     == routeDefs[i]
             pattern == ParsePattern(def.Pattern)
             handler == MakeHandler(def.Handler)
             mware   == MiddlewareNew(handler.h, def.Middleware, i)
             r       == [pattern |-> pattern.p, handler |-> handler.h, mware |-> i]
         IN  IF ~pattern.ok \/ ~handler.ok \/ ~mware.ok
             THEN [ok |-> FALSE, routes |-> methods]
             ELSE NewLoop(routeDefs, i + 1, [methods EXCEPT ![def.Method] = Append(@, r)])

New(routeDefs) == NewLoop(routeDefs, 1, [m \in Methods |-> <<>>])

\* A loop that does not stop at the first match: the last match wins.
RECURSIVE ScanRoutesAll(_, _, _, _)
ScanRoutesAll(rs, i, path, acc) ==
    IF i >= Len(rs) THEN acc
    ELSE LET r == At(rs, i)
         IN  ScanRoutesAll(rs, i + 1, path,
                 IF PatternMatch(r.pattern, path, FALSE, Background).ok
                 THEN [found |-> TRUE, mware |-> r.mware,
                       examined |-> Append(acc.examined, r.mware)]
                 ELSE [acc EXCEPT !.examined = Append(@, r.mware)])

\* The for loop of ServeHTTP up to the first route whose Match succeeds:
\* whether one was found, its stack, and the routes Match was called on.
RECURSIVE ScanRoutes(_, _, _, _)
ScanRoutes(rs, i, path, acc) ==
    IF i >= Len(rs) THEN acc
    ELSE LET r == At(rs, i)
         IN  IF PatternMatch(r.pattern, path, FALSE, Background).ok
             THEN [found |-> TRUE, mware |-> r.mware,
                   examined |-> Append(acc.examined, r.mware)]
             ELSE ScanRoutes(rs, i + 1, path, [acc EXCEPT !.examined = Append(@, r.mware)])

\* A not-found branch that ignores the configured handler.
notFoundOutcomeStandard(configured) == [kind |-> "http.NotFound", ctx |-> Background]

\* The not-found branch of ServeHTTP: the configured handler on
\* context.Background(), or http.NotFound.
notFoundOutcome(configured) ==
    IF configured THEN [kind |-> "NotFound", ctx |-> Background]
    ELSE [kind |-> "http.NotFound", ctx |-> Background]

(***************************************************************************)
(* The goroutines.  A thread is idle, serves one request through the       *)
(* router (op "ServeHTTP"), uses a stack directly (op "client": Get, call  *)
(* the handler, Release) or mutates a stack (op "Push" / "Remove").  A     *)
(* thread whose call has returned stays at "done" with the call's results  *)
(* until it starts its next call.                                          *)
(***************************************************************************)
Threads == 1..NThreads

ItemIds == 1..MaxItems

NoCall == [calls |-> <<>>, passed |-> FALSE, called |-> FALSE, ctx |-> Background]

Idle ==
    [pc |-> "idle", op |-> "", method |-> "", path |-> <<>>, found |-> FALSE,
     sid |-> 0, c |-> NoPool, item |-> NoItem, res |-> "",
     served |-> NoCall, nf |-> <<>>, examined |-> <<>>, early |-> FALSE, quiet |-> FALSE,
     locked |-> FALSE, log |-> <<>>]

FreeItem == [Context |-> Background, pool |-> NoPool,
             Handler |-> [mws |-> <<>>, final |-> ""], old |-> FALSE, used |-> FALSE,
             puts |-> 0]

\* The thread after its call has returned res (or panicked).  The locals
\* are gone; a dispatch leaves the record of what it did until the thread's
\* next call.  A user that releases its item twice keeps the pointer after
\* the first Release returned (pc "again"), and the second Release leaves
\* the record of how it returned.
Returned(r, res) ==
    IF r.op = "ServeHTTP"
    THEN [Idle EXCEPT !.pc = "done", !.op = r.op, !.res = res, !.method = r.method,
                      !.path = r.path, !.found = r.found, !.sid = r.sid,
                      !.examined = r.examined, !.nf = r.nf, !.log = r.log]
    ELSE IF r.op = "twice" /\ res # "panic"
    THEN [Idle EXCEPT !.pc = "again", !.op = r.op, !.sid = r.sid, !.item = r.item]
    ELSE IF r.op = "again"
    THEN [Idle EXCEPT !.pc = "done", !.op = r.op, !.res = res]
    ELSE Idle

\* The ghost log of a dispatch: the calls ServeHTTP has made on the matched
\* route, each with the stack and the item it was made on.
Logged(r, call, sid, it) ==
    IF r.op = "ServeHTTP"
    THEN Append(r.log, [call |-> call, sid |-> sid, item |-> it])
    ELSE r.log

\* The program counters at which a thread has an item checked out.
HoldingAt == {"run", "serve", "release", "put"}

Holding(t) == th[t].pc \in HoldingAt

\* A thread that can start a call.
Ready(t) == th[t].pc \in {"idle", "done"}

\* The garbage collector: a pool no stack and no goroutine refers to loses
\* its items, and the slot of an item nobody can reach is free again.
Collect(stk, pls, its, thr) ==
    LET held  == {t \in Threads : thr[t].pc \in HoldingAt \cup {"clear", "again"}}
        reach == {stk[s].cache : s \in DOMAIN stk}
                   \cup {thr[t].c : t \in {u \in Threads : thr[u].pc \in {"pool", "put"}}}
                   \cup {its[thr[t].item].pool : t \in held}
        pls2  == [c \in DOMAIN pls |-> IF c \in reach THEN pls[c] ELSE {}]
        live  == {thr[t].item : t \in held}
                   \cup UNION {pls2[c] : c \in DOMAIN pls2}
    IN  [pools |-> pls2,
         items |-> [it \in DOMAIN its |-> IF it \in live THEN its[it] ELSE FreeItem]]

\* The next state of the stacks, pools, items and threads.
Commit(stk, pls, its, thr) ==
    LET gc == Collect(stk, pls, its, thr)
    IN  /\ stacks' = stk
        /\ pools' = gc.pools
        /\ items' = gc.items
        /\ th' = thr
        /\ UNCHANGED <<routes, NotFound>>
        /\ UNCHANGED patVars
        /\ UNCHANGED bldVars

\* ServeHTTP, from the entry to the end of the route loop's search.
DispatchBegin(t) ==
    \E method \in Methods, path \in RouterPaths :
        LET sc == ScanRoutes(routes[method], 0, path,
                             [found |-> FALSE, mware |-> 0, examined |-> <<>>])
        IN  /\ routes # NoRouter
            /\ Ready(t)
            /\ Commit(stacks, pools, items,
                   [th EXCEPT ![t] =
                       [Idle EXCEPT !.pc = IF sc.found THEN "get" ELSE "notfound",
                                    !.op = "ServeHTTP", !.method = method, !.path = path,
                                    !.found = sc.found, !.sid = sc.mware,
                                    !.examined = sc.examined]])

\* if !found { NotFound.ServeHTTPC(context.Background(), w, r) or http.NotFound(w, r) }
DispatchNotFound(t) ==
    /\ th[t].pc = "notfound"
    /\ Commit(stacks, pools, items,
           [th EXCEPT ![t] = Returned([th[t] EXCEPT !.nf = Append(@, notFoundOutcome(NotFound))],
                                      "")])

\* A direct user of the stack starts a Get.
ClientBegin(t) ==
    /\ Ready(t)
    /\ Commit(stacks, pools, items,
           [th EXCEPT ![t] = [Idle EXCEPT !.pc = "get", !.op = "client", !.sid = 1]])

\* A direct user of the stack that will call Release twice on the item it
\* gets.
TwiceBegin(t) ==
    /\ Ready(t)
    /\ Commit(stacks, pools, items,
           [th EXCEPT ![t] = [Idle EXCEPT !.pc = "get", !.op = "twice", !.sid = 1]])

\* A lock that is granted whoever holds it.
LockFreeAlways(m) == TRUE

\* m.mu.Lock() returns when no goroutine holds the lock.
LockFree(m) == m.mu = NoThread

\* Every operation waits for the lock.
AcquiresAlways(op) == TRUE

\* The operations that take m.mu: Push and Remove.
Acquires(op) == op \in {"Push", "Remove"}

\* Another goroutine holds the lock of the stack thread t works on.
LockedOut(t) == stacks[th[t].sid].mu \notin {NoThread, t}

\* Get: c := m.cache.  locked is a ghost: another goroutine held the lock
\* at every step of the Get, the call of the chain and the Release so far.
GetRead(t) ==
    LET m == stacks[th[t].sid]
    IN  /\ th[t].pc = "get"
        /\ Acquires("Get") => LockFree(m)
        /\ Commit(stacks, pools, items,
               [th EXCEPT ![t].pc = "pool", ![t].c = m.cache,
                          ![t].quiet = (m.mu = NoThread),
                          ![t].locked = LockedOut(t)])

\* A dispatch that calls the chain right after Get.
AfterGetServe(op) == "serve"

\* What the caller of Get does next: ServeHTTP calls route.pattern.Run, a
\* direct user of the stack calls the handler.
AfterGet(op) == IF op = "ServeHTTP" THEN "run" ELSE "serve"

\* A Get on a pool that leaves the item in it.
PoolTakeKeep(p, it) == p

\* sync.Pool.Get removes the item it returns from the pool.
PoolTake(p, it) == p \ {it}

\* Get: stack := c.Get().(*StackItem); stack.pool = c; return stack.  The
\* pool hands out one of its items or calls New (newResolved), whose item
\* takes the lowest free slot.  quiet is a ghost: no mutation was in
\* progress at any step of the Get.
GetPool(t) ==
    LET m     == stacks[th[t].sid]
        c     == th[t].c
        free  == ItemIds \ ({th[u].item : u \in Threads} \cup UNION {pools[p] : p \in DOMAIN pools})
        thr(it) == [th EXCEPT ![t].pc = AfterGet(th[t].op),
                              ![t].item = it,
                              ![t].log = Logged(th[t], "Get", th[t].sid, it),
                              ![t].quiet = @ /\ m.mu = NoThread /\ ~th[t].early,
                              ![t].locked = @ /\ LockedOut(t)]
    IN  /\ th[t].pc = "pool"
        /\ \/ \E it \in pools[c] :
                 Commit(stacks, [pools EXCEPT ![c] = PoolTake(@, it)],
                        [items EXCEPT ![it].pool = c, ![it].puts = 0], thr(it))
           \/ \E it \in free :
                 /\ \A other \in free : it <= other
                 /\ Commit(stacks, pools,
                        [items EXCEPT ![it] = [newResolved(m) EXCEPT !.pool = c]], thr(it))

\* The route of the request being served by t.
RouteOf(t) ==
    LET rs == routes[th[t].method]
    IN  rs[CHOOSE i \in 1..Len(rs) : rs[i].mware = th[t].sid]

\* route.pattern.Run(r, &stack.Context)
DispatchRun(t) ==
    LET it == th[t].item
    IN  /\ th[t].pc = "run"
        /\ Commit(stacks, pools,
               [items EXCEPT ![it].Context =
                                 PatternRun(RouteOf(t).pattern, th[t].path, @).ctx,
                             ![it].used =
                                 @ \/ PatternRun(RouteOf(t).pattern, th[t].path,
                                                 items[it].Context).ctx # items[it].Context],
               [th EXCEPT ![t].pc = "serve",
                          ![t].log = Logged(th[t], "Run", th[t].sid, it)])

\* stack.Handler.ServeHTTP(w, r): the chain runs; when it reaches the end,
\* the final function is called with the context the item holds now.
Serve(t) ==
    LET it == th[t].item
        h  == items[it].Handler
    IN  /\ th[t].pc = "serve"
        /\ \E stop \in 0..Len(h.mws) :
              Commit(stacks, pools, items,
                  [th EXCEPT ![t].pc = "release",
                             ![t].locked = @ /\ LockedOut(t),
                             ![t].log = Logged(th[t], "ServeHTTP", th[t].sid, it),
                             ![t].served =
                                 [calls  |-> ServeHTTP(h, 1, stop),
                                  passed |-> stop = 0,
                                  called |-> stop = 0,
                                  ctx    |-> IF stop = 0
                                             THEN FinalContext(items[it], stacks[th[t].sid])
                                             ELSE Background]])

\* Release, called by thread t whose record is r: s.Context =
\* m.BaseContext; if s.pool != m.cache { return }.  c keeps the value of
\* s.pool the comparison read.
ReleaseBody(t, r) ==
    LET it == r.item
        m  == stacks[r.sid]
    IN  /\ Acquires("Release") => LockFree(m)
        /\ Commit(stacks, pools,
               [items EXCEPT ![it].Context = ReleaseContext(items[it], m)],
               IF Stale(items[it], m)
               THEN [th EXCEPT ![t] =
                        Returned([r EXCEPT !.log = Logged(r, "Release", r.sid, it)],
                                 "discarded")]
               ELSE [th EXCEPT ![t] =
                        [r EXCEPT !.pc = "put", !.c = items[it].pool,
                                  !.locked = @ /\ LockedOut(t),
                                  !.log = Logged(r, "Release", r.sid, it),
                                  !.served = NoCall]])

\* The first Release of a checkout.
ReleaseReset(t) ==
    /\ th[t].pc = "release"
    /\ ReleaseBody(t, th[t])

\* Another goroutine has the item of thread t checked out.
HeldByOther(t) ==
    \E u \in Threads \ {t} :
        th[u].item = th[t].item /\ th[u].pc \in HoldingAt \cup {"clear"}

\* A second Release of an item nobody has checked out: the same code, up to
\* the comparison.
ReleaseAgain(t) ==
    /\ th[t].pc = "again"
    /\ ~HeldByOther(t)
    /\ ReleaseBody(t, [th[t] EXCEPT !.op = "again"])

\* Release: s.pool.Put(s).  s.pool is written by whoever returned the item
\* last without synchronisation, so the pool used is the one the comparison
\* read or the one the field holds now; a nil pool panics.
ReleasePut(t) ==
    LET it == th[t].item
    IN  /\ th[t].pc = "put"
        /\ \E c \in {th[t].c, ReleaseTarget(items[it], stacks[th[t].sid])} :
              IF c = NoPool
              THEN Commit(stacks, pools, items,
                       [th EXCEPT ![t] = Returned(th[t], "panic")])
              ELSE Commit(stacks, [pools EXCEPT ![c] = @ \cup {it}],
                       [items EXCEPT ![it].puts = IF @ < 2 THEN @ + 1 ELSE @],
                       [th EXCEPT ![t].pc = "clear", ![t].locked = @ /\ LockedOut(t)])

\* A Release that leaves the item labelled with its pool.
ClearedKept(pool) == pool

\* The label of an item Release has handed back: nil.
Cleared(pool) == NoPool

\* Release: s.pool = nil
ReleaseClear(t) ==
    /\ th[t].pc = "clear"
    /\ Commit(stacks, pools, [items EXCEPT ![th[t].item].pool = Cleared(@)],
           [th EXCEPT ![t] = Returned(th[t], "released")])

\* resetPool: m.cache = &sync.Pool{New: m.newResolved}; c is the new pool.
resetPool(m, c) == [m EXCEPT !.cache = c]

\* Push(mw) from Lock to the end of push: a panic of makeCanonical runs the
\* deferred Unlock and leaves the pool as it is.
PushList(t) ==
    \E mw \in Middlewares :
        LET m == stacks[1]
            r == push(m, mw)
            call == [Idle EXCEPT !.op = "Push", !.sid = 1]
        IN  /\ Ready(t)
            /\ Acquires("Push") => LockFree(m)
            /\ m.budget > 0
            /\ IF r.ok
               THEN Commit([stacks EXCEPT ![1] = [r.m EXCEPT !.mu = t, !.budget = @ - 1]],
                        pools, items, [th EXCEPT ![t] = [call EXCEPT !.pc = "reset"]])
               ELSE Commit([stacks EXCEPT ![1] = [r.m EXCEPT !.budget = @ - 1]],
                        pools, items,
                        [th EXCEPT ![t] = Returned(call, "panic")])

\* Remove(mw) from Lock to the update of the two lists, or to the return of
\* ErrMiddlewareNotFound.
RemoveCall(t, mw) ==
    LET m == stacks[1]
        r == removeLists(m, mw)
        call == [Idle EXCEPT !.op = "Remove", !.sid = 1]
    IN  /\ Ready(t)
        /\ Acquires("Remove") => LockFree(m)
        /\ m.budget > 0
        /\ CASE r.res = "found" ->
                  Commit([stacks EXCEPT ![1] = [r.m EXCEPT !.mu = t, !.budget = @ - 1]],
                      pools, items, [th EXCEPT ![t] = [call EXCEPT !.pc = "reset"]])
             [] r.res = "panic" ->
                  Commit([stacks EXCEPT ![1] = [r.m EXCEPT !.budget = @ - 1]],
                      pools, items,
                      [th EXCEPT ![t] = Returned(call, "panic")])
             [] OTHER ->
                  Commit(stacks, pools, items,
                      [th EXCEPT ![t] = Returned(call, "ErrMiddlewareNotFound")])

RemoveList(t) == \E mw \in Middlewares : RemoveCall(t, mw)

\* The pools a stack, a goroutine, a checked-out item or an item a
\* goroutine still points to refers to.
PoolsInUse ==
    {stacks[s].cache : s \in DOMAIN stacks}
        \cup {th[t].c : t \in {u \in Threads : th[u].pc \in {"pool", "put"}}}
        \cup {items[th[t].item].pool :
                  t \in {u \in Threads : th[u].pc \in HoldingAt \cup {"clear", "again"}}}

\* The end of Push and Remove: resetPool, the deferred Unlock, the return.
\* The new pool takes an identity no live pool has.  Ghosts: every item that
\* exists now was composed before this mutation returned (old), and every
\* Get in progress began before it returned (early).
MutReset(t) ==
    LET m    == stacks[th[t].sid]
        free == DOMAIN pools \ PoolsInUse
        c    == CHOOSE p \in free : \A q \in free : p <= q
    IN  /\ th[t].pc = "reset"
        /\ Commit([stacks EXCEPT ![th[t].sid] = [resetPool(m, c) EXCEPT !.mu = NoThread]],
               pools,
               [it \in DOMAIN items |-> [items[it] EXCEPT !.old = TRUE]],
               [u \in Threads |->
                   IF u = t THEN Returned(th[t], "ok")
                   ELSE IF th[u].pc \in HoldingAt \cup {"pool"}
                        THEN [th[u] EXCEPT !.early = TRUE]
                        ELSE th[u]])

(***************************************************************************)
(* The route builder (package builder).                                    *)
(*                                                                         *)
(* A builder object is a record of its specs and middleware; a *builder is *)
(* its id.  A handler is identified by the number of the Handle call that  *)
(* registered it.  The callback of Route and Group runs between RouteBegin *)
(* and RouteEnd and registers on the sub-builder it was handed.            *)
(***************************************************************************)
NoBuilder == 0

NoHandler == 0

\* &builder{}; the ghost made tells New() from the sub-builder of a Route,
\* the ghost late that Use was called on the builder after Handle.
newBuilder(made) == [specs |-> <<>>, middleware |-> <<>>, made |-> made, late |-> FALSE]

\* routeOrBuilderSpec{pattern, route: &routeSpec{method, handler}}
RouteEntry(method, pattern, handler) ==
    [pattern |-> pattern, kind |-> "route", method |-> method, handler |-> handler,
     inherit |-> FALSE, builder |-> NoBuilder]

\* routeOrBuilderSpec{pattern, subBuilder: &builderSpec{inherit, builder}}
BuilderEntry(pattern, inherit, b) ==
    [pattern |-> pattern, kind |-> "builder", method |-> "", handler |-> NoHandler,
     inherit |-> inherit, builder |-> b]

\* The arguments the Handle calls are made with, in turn.
HandleInputs ==
    << [method |-> "GET", pattern |-> <<"/", "a">>],
       [method |-> "POST", pattern |-> <<"/", "b">>] >>

RoutePrefixes == {<<"/", "p">>}

MountPrefixes == {<<"/", "m">>}

\* The middleware values handed to Use, call after call.
BuilderMiddleware == <<"m1", "m2", "m3">>

\* The builders the program holds: those made with New().
Roots == {r \in 1..Len(builders) : builders[r].made = "New"}

RECURSIVE SumOver(_, _, _)
SumOver(bs, i, field) ==
    IF i > Len(bs) THEN 0 ELSE Len(bs[i][field]) + SumOver(bs, i + 1, field)

TotalSpecs == SumOver(builders, 1, "specs")

TotalUse == SumOver(builders, 1, "middleware")

RECURSIVE CountRoutes(_, _)
CountRoutes(bs, i) ==
    IF i > Len(bs) THEN 0
    ELSE Len(SelectSeq(bs[i].specs, LAMBDA sp : sp.kind = "route")) + CountRoutes(bs, i + 1)

\* The builders the running code registers on: the sub-builder handed to
\* the innermost running callback, or one of the New() builders.
Current == IF scope = <<>> THEN Roots ELSE {scope[Len(scope)].sub}

NoResult == [res |-> "none", root |-> NoBuilder, defs |-> <<>>, seen |-> {}, again |-> FALSE]

BldIdle ==
    /\ builders = <<>>
    /\ scope = <<>>
    /\ rd = NoResult

Changed(bs, sc) ==
    /\ builders' = bs
    /\ scope' = sc
    /\ rd' = NoResult
    /\ UNCHANGED patVars
    /\ UNCHANGED sysVars

\* r.Handle(method, path, handler)
Handle(r) ==
    LET handler == CountRoutes(builders, 1) + 1
        in      == HandleInputs[(handler % Len(HandleInputs)) + 1]
    IN  /\ r \in Current
        /\ TotalSpecs + Len(scope) < MaxSpecs
        /\ Changed([builders EXCEPT ![r].specs =
                        Append(@, RouteEntry(in.method, in.pattern, handler))],
                   scope)

\* r.Use(m)
Use(r) ==
    LET m == BuilderMiddleware[TotalUse + 1]
    IN  /\ r \in Current
        /\ TotalUse < MaxUse
        /\ Changed([builders EXCEPT
                       ![r].middleware = Append(@, m),
                       ![r].late = @ \/ \E i \in 1..Len(builders[r].specs) :
                                           builders[r].specs[i].kind = "route"],
                   scope)

\* New()
NewBuilder ==
    /\ scope = <<>>
    /\ Len(builders) < MaxNodes
    /\ Changed(Append(builders, newBuilder("New")), scope)

\* r.Route(pattern, fn) up to the call of fn: sub := newBuilder(); fn(sub)
RouteBegin(r, pattern) ==
    /\ r \in Current
    /\ Len(builders) < MaxNodes
    /\ TotalSpecs + Len(scope) < MaxSpecs
    /\ Changed(Append(builders, newBuilder("Route")),
               Append(scope, [parent |-> r, pattern |-> pattern, sub |-> Len(builders) + 1]))

Route(r) == \E pattern \in RoutePrefixes : RouteBegin(r, pattern)

\* r.Group(fn) is r.Route("", fn)
Group(r) == RouteBegin(r, <<>>)

\* r.Route(pattern, fn) after fn has returned: the sub-builder is appended
\* to the specs of r, marked as inheriting.
RouteEnd ==
    /\ scope # <<>>
    /\ LET call == scope[Len(scope)]
       IN  Changed([builders EXCEPT ![call.parent].specs =
                        Append(@, BuilderEntry(call.pattern, TRUE, call.sub))],
                   SubSeq(scope, 1, Len(scope) - 1))

\* The builders the running code can name: those made with New() and those
\* of the Route calls it runs inside.
Known == Roots \cup {scope[i].sub : i \in 1..Len(scope)} \cup {scope[i].parent : i \in 1..Len(scope)}

\* r.Mount(pattern, sr)
Mount(r) ==
    \E pattern \in MountPrefixes, sr \in Known :
        /\ r \in Current
        /\ TotalSpecs + Len(scope) < MaxSpecs
        /\ Changed([builders EXCEPT ![r].specs =
                        Append(@, BuilderEntry(pattern, FALSE, sr))],
                   scope)

\* A traversal that never recognises a builder it has seen.
SeenNever(seen, b) == FALSE

\* _, ok := seen[b]
Seen(seen, b) == b \in seen

\* A route that takes the middleware of its own builder only.
RouteMiddlewareOwn(bs, b, middleware) == bs[b].middleware

RECURSIVE EveryMiddleware(_, _)
EveryMiddleware(bs, i) ==
    IF i > Len(bs) THEN <<>> ELSE bs[i].middleware \o EveryMiddleware(bs, i + 1)

\* A route that takes, after the inherited middleware, that of every builder.
RouteMiddlewareEvery(bs, b, middleware) == middleware \o EveryMiddleware(bs, 1)

\* mware = append(mware, middleware...); mware = append(mware, b.middleware...)
RouteMiddleware(bs, b, middleware) == middleware \o bs[b].middleware

\* A sub-builder that is handed the middleware whatever its inherit flag.
SubMiddlewareAlways(inherit, middleware, own) == middleware \o own

\* The middleware handed to a sub-builder: what a route of b gets when the
\* sub-builder inherits, the empty list when it does not.
SubMiddleware(inherit, middleware, own) ==
    IF inherit THEN middleware \o own ELSE <<>>

\* A route that takes, before its own pattern, the pattern of an entry that
\* attaches its builder.
RoutePatternPrefixed(bs, b, spec) ==
    LET at == {e \in {[parent |-> p, i |-> i] : p \in 1..Len(bs), i \in 1..MaxSpecs} :
                  /\ e.i <= Len(bs[e.parent].specs)
                  /\ bs[e.parent].specs[e.i].kind = "builder"
                  /\ bs[e.parent].specs[e.i].builder = b}
    IN  IF at = {} THEN spec.pattern
        ELSE LET e == CHOOSE x \in at : TRUE
             IN  bs[e.parent].specs[e.i].pattern \o spec.pattern

\* Pattern: spec.pattern
RoutePattern(bs, b, spec) == spec.pattern

\* A traversal that forgets a builder once it has walked its specs.
LeaveForgets(seen, b) == seen \ {b}

\* The end of walk: the builder stays in seen for the rest of the
\* RouteDefs call.
Leave(seen, b) == seen

\* A list that grows at the front.
EmitFirst(defs, def) == <<def>> \o defs

\* defs = append(defs, RouteDef{...})
Emit(defs, def) == Append(defs, def)

\* The closure walk of RouteDefs.  acc holds defs, seen and whether the
\* cycle panic was raised; depth counts the nested calls, and a nesting
\* deeper than the number of builders cannot end: it is reported as
\* "diverged".
RECURSIVE walk(_, _, _, _, _)
RECURSIVE walkSpecs(_, _, _, _, _, _)
walk(bs, b, middleware, acc, depth) ==
    IF acc.res # "ok" THEN acc
    ELSE IF Seen(acc.seen, b) THEN [acc EXCEPT !.res = "panic"]
    ELSE IF depth > Len(bs) THEN [acc EXCEPT !.res = "diverged"]
    ELSE LET done == walkSpecs(bs, b, middleware, 1, [acc EXCEPT !.seen = @ \cup {b}], depth)
         IN  [done EXCEPT !.seen = Leave(@, b)]

walkSpecs(bs, b, middleware, i, acc, depth) ==
    IF acc.res # "ok" \/ i > Len(bs[b].specs) THEN acc
    ELSE LET spec == bs[b].specs[i]
         IN  IF spec.kind = "route"
             THEN walkSpecs(bs, b, middleware, i + 1,
                      [acc EXCEPT !.defs = Emit(@,
                          [Method |-> spec.method, Pattern |-> RoutePattern(bs, b, spec),
                           Handler |-> spec.handler,
                           Middleware |-> RouteMiddleware(bs, b, middleware)])],
                      depth)
             ELSE walkSpecs(bs, b, middleware, i + 1,
                      walk(bs, spec.builder,
                           SubMiddleware(spec.inherit, middleware, bs[b].middleware),
                           acc, depth + 1),
                      depth)

\* A visited set that outlives the call.
SeenCarried(last) == last

\* seen := map[*builder]struct{}{}: every call starts with an empty set,
\* whatever the last call has visited.
SeenAtEntry(last) == {}

\* r.RouteDefs(), called when the last call has left the visited set last:
\* the list, or the panic of the cycle check.
RouteDefsAfter(bs, r, last) ==
    LET acc == walk(bs, r, <<>>, [res |-> "ok", defs |-> <<>>, seen |-> SeenAtEntry(last)], 1)
    IN  [res |-> acc.res, root |-> r, defs |-> IF acc.res = "ok" THEN acc.defs ELSE <<>>,
         seen |-> acc.seen]

\* rd := r.RouteDefs().  Ghosts: seen is the visited set the call ended
\* with, again tells that this is a further call on the same builder with
\* no builder operation in between.
RouteDefsCall(r, again) ==
    LET res == RouteDefsAfter(builders, r, rd.seen)
    IN  /\ scope = <<>>
        /\ r \in Roots
        /\ rd' = [res |-> res.res, root |-> r, defs |-> res.defs, seen |-> res.seen,
                  again |-> again]
        /\ UNCHANGED <<builders, scope>>
        /\ UNCHANGED patVars
        /\ UNCHANGED sysVars

RouteDefs(r) == RouteDefsCall(r, rd.again /\ rd.root = r)

\* A program that calls r.RouteDefs() a second time.
RouteDefsAgain(r) ==
    /\ rd.res # "none"
    /\ rd.root = r
    /\ RouteDefsCall(r, TRUE)

(***************************************************************************)
(* The specifications.                                                     *)
(*   Spec      the router: concurrent ServeHTTP calls on one SimpleRouter  *)
(*   StackSpec one MiddlewareStack: users that Get, serve and Release,     *)
(*             next to Push and Remove calls                               *)
(*   SeqSpec   one MiddlewareStack used by one goroutine, call after call  *)
(*   PatSpec   one Pattern, one request: Match, Run and Prefix             *)
(*   BuilderSpec  the builders of one program: registrations, then         *)
(*             RouteDefs                                                   *)
(***************************************************************************)
RouterInit ==
    /\ PatIdle
    /\ BldIdle
    /\ \E routeDefs \in RouteDefLists :
          IF New(routeDefs).ok
          THEN /\ stacks = [i \in 1..Len(routeDefs) |->
                               NewStack(routeDefs[i].Handler, routeDefs[i].Middleware, i)]
               /\ pools = [i \in 1..Len(routeDefs) |-> {}]
               /\ routes = New(routeDefs).routes
          ELSE /\ stacks = <<>>
               /\ pools = <<>>
               /\ routes = NoRouter
    /\ items = [it \in ItemIds |-> FreeItem]
    /\ NotFound \in BOOLEAN
    /\ th = [t \in Threads |-> Idle]

RouterNext ==
    \E t \in Threads :
        \/ DispatchBegin(t)
        \/ DispatchNotFound(t)
        \/ GetRead(t)
        \/ GetPool(t)
        \/ DispatchRun(t)
        \/ Serve(t)
        \/ ReleaseReset(t)
        \/ ReleasePut(t)
        \/ ReleaseClear(t)

Spec == RouterInit /\ [][RouterNext]_vars

StackSetup(calls) ==
    /\ PatIdle
    /\ BldIdle
    /\ \E middleware \in InitialMiddleware :
          stacks = <<[NewStack("final", middleware, 1) EXCEPT !.budget = calls]>>
    /\ pools = [c \in 1..(NThreads + 1) |-> {}]
    /\ routes = [m \in Methods |-> <<>>]
    /\ items = [it \in ItemIds |-> FreeItem]
    /\ NotFound = FALSE
    /\ th = [t \in Threads |-> Idle]

StackInit == StackSetup(MaxMut)

StackNext ==
    \E t \in Threads :
        \/ ClientBegin(t)
        \/ GetRead(t)
        \/ GetPool(t)
        \/ Serve(t)
        \/ ReleaseReset(t)
        \/ ReleasePut(t)
        \/ ReleaseClear(t)
        \/ PushList(t)
        \/ RemoveList(t)
        \/ MutReset(t)

StackSpec == StackInit /\ [][StackNext]_vars

\* The first goroutine.
Main == {t \in Threads : \A u \in Threads : t <= u}

SeqInit == StackSetup(MaxSeqMut)

SeqNext ==
    \E t \in Main :
        \/ ClientBegin(t)
        \/ GetRead(t)
        \/ GetPool(t)
        \/ Serve(t)
        \/ ReleaseReset(t)
        \/ ReleasePut(t)
        \/ ReleaseClear(t)
        \/ PushList(t)
        \/ RemoveList(t)
        \/ MutReset(t)

SeqSpec == SeqInit /\ [][SeqNext]_vars

\* One stack, users that Get, serve and Release once or twice, next to
\* Push and Remove calls.
ReleaseInit == StackSetup(MaxRelMut)

ReleaseNext ==
    \E t \in Threads :
        \/ ClientBegin(t)
        \/ TwiceBegin(t)
        \/ GetRead(t)
        \/ GetPool(t)
        \/ Serve(t)
        \/ ReleaseReset(t)
        \/ ReleasePut(t)
        \/ ReleaseClear(t)
        \/ ReleaseAgain(t)
        \/ PushList(t)
        \/ RemoveList(t)
        \/ MutReset(t)

ReleaseSpec == ReleaseInit /\ [][ReleaseNext]_vars

SysIdle ==
    /\ stacks = <<>>
    /\ pools = <<>>
    /\ routes = [m \in Methods |-> <<>>]
    /\ items = [it \in ItemIds |-> FreeItem]
    /\ NotFound = FALSE
    /\ th = [t \in Threads |-> Idle]

PatSpecInit ==
    /\ PatInit
    /\ SysIdle
    /\ BldIdle

PatSpec == PatSpecInit /\ [][PatNext]_vars

BuilderInit ==
    /\ PatIdle
    /\ SysIdle
    /\ builders = <<newBuilder("New")>>
    /\ scope = <<>>
    /\ rd = NoResult

BuilderNext ==
    \/ NewBuilder
    \/ RouteEnd
    \/ \E r \in 1..MaxNodes :
          \/ Handle(r)
          \/ Use(r)
          \/ Route(r)
          \/ Group(r)
          \/ Mount(r)
          \/ RouteDefs(r)

BuilderSpec == BuilderInit /\ [][BuilderNext]_vars

\* Programs that flatten a builder more than once.
RepeatNext ==
    \/ NewBuilder
    \/ RouteEnd
    \/ \E r \in 1..MaxNodes :
          \/ Handle(r)
          \/ Group(r)
          \/ Mount(r)
          \/ RouteDefs(r)
          \/ RouteDefsAgain(r)

RepeatSpec == BuilderInit /\ [][RepeatNext]_vars

(***************************************************************************)
(* Properties of the pattern engine.                                       *)
(***************************************************************************)
RanTemplate == pOp = "Run" /\ pRes = TRUE /\ pPat.kind = "string"

TemplateIs(raw) == pPat.kind = "string" /\ pPat.raw = raw

Bound == GetURLParams(pCtx)

DistinctNames(s) == \A i, j \in 1..Len(s.pats) : s.pats[i] = s.pats[j] => i = j

\* C8: Match never changes the request's context: as long as only Match has
\* been called (any number of times, on a template or a regexp pattern), the
\* context is the one the request started with and holds no URL parameters.
C8_MatchLeavesContext == ~pRan => pCtx = Background

\* C9: no successful template match binds a variable (or the wildcard key)
\* to the empty string, and the paths with an empty variable position are
\* rejected: /:a on /, /a/:b.:c on /a/c., /a/:a/b/:b on /a//b/.
C9_NoEmptyBinding ==
    /\ RanTemplate => \A k \in DOMAIN Bound.m : Bound.m[k] # <<>>
    /\ pOp \in {"Match", "Run"} =>
          /\ (TemplateIs(<<"/", ":", "a">>) /\ pPath = <<"/">>) => pRes = FALSE
          /\ (TemplateIs(<<"/", "a", "/", ":", "b", ".", ":", "c">>)
              /\ pPath = <<"/", "a", "/", "c", ".">>) => pRes = FALSE
          /\ (TemplateIs(<<"/", "a", "/", ":", "a", "/", "b", "/", ":", "b">>)
              /\ pPath = <<"/", "a", "/", "/", "b", "/">>) => pRes = FALSE

C9_Witness == RanTemplate /\ Len(pPat.pats) = 2 /\ ~pPat.wildcard

\* The break character the template declares for variable i: the character
\* that follows the variable, or "/" when the variable ends the template.
DeclaredBreak(s, i) == IF s.literals[i + 1] = <<>> THEN "/" ELSE s.literals[i + 1][1]

\* The path position (0-based) at which variable i starts, given the values
\* bound to the variables before it.
RECURSIVE VarStart(_, _, _)
VarStart(s, vals, i) ==
    IF i = 1 THEN Len(s.literals[1])
    ELSE VarStart(s, vals, i - 1) + Len(vals[s.pats[i - 1]]) + Len(s.literals[i])

\* C10: a template variable binds the characters from its start up to, not
\* including, the first occurrence of its break character or of "/":
\* the bound value is the path text at the variable's position, holds
\* neither character, and is followed by one of them or by the path's end.
\* /a/:b.:c on /a/c.t.g binds b=c and c=t.g; /a/:n on /a/m.w;w binds n=m.w;w.
C10_BindsUpToBreak ==
    /\ (RanTemplate /\ DistinctNames(pPat)) =>
          \A i \in 1..Len(pPat.pats) :
              LET v     == Bound.m[pPat.pats[i]]
                  start == VarStart(pPat, Bound.m, i)
                  stop  == {DeclaredBreak(pPat, i), "/"}
              IN  /\ pPat.breaks[i] = DeclaredBreak(pPat, i)
                  /\ Slice(pPath, start, start + Len(v)) = v
                  /\ \A n \in 1..Len(v) : v[n] \notin stop
                  /\ start + Len(v) = Len(pPath) \/ At(pPath, start + Len(v)) \in stop
    /\ (RanTemplate /\ TemplateIs(<<"/", "a", "/", ":", "b", ".", ":", "c">>)
        /\ pPath = <<"/", "a", "/", "c", ".", "t", ".", "g">>) =>
          Bound.m = (<<"b">> :> <<"c">>) @@ (<<"c">> :> <<"t", ".", "g">>)
    /\ (RanTemplate /\ TemplateIs(<<"/", "a", "/", ":", "n">>)
        /\ pPath = <<"/", "a", "/", "m", ".", "w", ";", "w">>) =>
          Bound.m = (<<"n">> :> <<"m", ".", "w", ";", "w">>)

C10_Witness ==
    /\ RanTemplate
    /\ TemplateIs(<<"/", "a", "/", ":", "b", ".", ":", "c">>)
    /\ pPath = <<"/", "a", "/", "c", ".", "t", ".", "g">>
    /\ MapHas(Bound, <<"c">>)

\* The least element of a set of numbers.
First(S) == CHOOSE i \in S : \A j \in S : i <= j

\* The last literal of a template: what follows the last variable.
LastLiteral(s) == s.literals[Len(s.pats) + 1]

\* The path position (0-based) just after the last variable, given the
\* values bound to the variables.
VarsEnd(s, vals) ==
    IF Len(s.pats) = 0 THEN 0
    ELSE VarStart(s, vals, Len(s.pats)) + Len(vals[s.pats[Len(s.pats)]])

StarIsVariable(s) == \E i \in 1..Len(s.pats) : s.pats[i] = <<"*">>

\* The template without the star of its trailing "/*".
WithoutStar(raw) == SubSeq(raw, 1, Len(raw) - 1)

\* C11: a template ending in "/*" matches exactly the paths that continue,
\* after the variables, with the final literal (which ends in "/"): the
\* paths with a prefix that the template without its star matches in full.
\* Run binds the variables and the key "*", and the value of "*" is the rest
\* of the path from the "/" that ends the final literal, so it begins with
\* "/".  /u/:u/* binds u=b, *=/ on /u/b/ and *=/f/1 on /u/b/f/1, and does
\* not match /u/b.
C11_WildcardBindsRest ==
    /\ (RanTemplate /\ pPat.wildcard /\ DistinctNames(pPat) /\ ~StarIsVariable(pPat)) =>
          LET tail == LastLiteral(pPat)
              e    == VarsEnd(pPat, Bound.m)
              star == Bound.m[<<"*">>]
          IN  /\ DOMAIN Bound.m = {pPat.pats[i] : i \in 1..Len(pPat.pats)} \cup {<<"*">>}
              /\ tail # <<>> /\ tail[Len(tail)] = "/"
              /\ Slice(pPath, e, e + Len(tail)) = tail
              /\ star = Slice(pPath, e + Len(tail) - 1, Len(pPath))
              /\ star # <<>> /\ star[1] = "/"
    /\ (pOp \in {"Match", "Run"} /\ pPat.kind = "string" /\ pPat.wildcard) =>
          (pRes = TRUE <=>
              \E k \in 0..Len(pPath) :
                  StringPatternMatch(ParseStringPattern(WithoutStar(pPat.raw)),
                                     Slice(pPath, 0, k), Background).ok)
    /\ (pOp \in {"Match", "Run"} /\ TemplateIs(<<"/", "u", "/", ":", "u", "/", "*">>)) =>
          /\ pPath = <<"/", "u", "/", "b">> => pRes = FALSE
          /\ (pOp = "Run" /\ pPath = <<"/", "u", "/", "b", "/">>) =>
                 /\ pRes = TRUE
                 /\ Bound.m = (<<"u">> :> <<"b">>) @@ (<<"*">> :> <<"/">>)
          /\ (pOp = "Run" /\ pPath = <<"/", "u", "/", "b", "/", "f", "/", "1">>) =>
                 /\ pRes = TRUE
                 /\ Bound.m = (<<"u">> :> <<"b">>) @@ (<<"*">> :> <<"/", "f", "/", "1">>)

C11_Witness ==
    /\ RanTemplate
    /\ TemplateIs(<<"/", "u", "/", ":", "u", "/", "*">>)
    /\ pPath = <<"/", "u", "/", "b", "/", "f", "/", "1">>
    /\ MapHas(Bound, <<"*">>)

\* C12: a template without a wildcard matches only when the whole path is
\* consumed: what is left of the path after the last variable equals the
\* final literal exactly (the whole template, when it has no variable).
\* /a matches neither /a/ nor /a/w, and /a/:a/b/:b does not match /a/1/b/2/3.
C12_WholePathConsumed ==
    /\ (RanTemplate /\ ~pPat.wildcard /\ DistinctNames(pPat)) =>
          Slice(pPath, VarsEnd(pPat, Bound.m), Len(pPath)) = LastLiteral(pPat)
    /\ (pOp \in {"Match", "Run"} /\ pPat.kind = "string" /\ ~pPat.wildcard /\ pRes = TRUE) =>
          /\ HasSuffix(pPath, LastLiteral(pPat))
          /\ Len(pPat.pats) = 0 => pPath = pPat.raw
    /\ (pOp \in {"Match", "Run"} /\ TemplateIs(<<"/", "a">>)) =>
          /\ pPath = <<"/", "a", "/">> => pRes = FALSE
          /\ pPath = <<"/", "a", "/", "w">> => pRes = FALSE
          /\ pPath = <<"/", "a">> => pRes = TRUE
    /\ (pOp \in {"Match", "Run"}
        /\ TemplateIs(<<"/", "a", "/", ":", "a", "/", "b", "/", ":", "b">>)) =>
          /\ pPath = <<"/", "a", "/", "1", "/", "b", "/", "2", "/", "3">> => pRes = FALSE
          /\ pPath = <<"/", "a", "/", "1", "/", "b", "/", "2">> => pRes = TRUE

C12_Witness ==
    /\ RanTemplate
    /\ TemplateIs(<<"/", "a", "/", ":", "a", "/", "b", "/", ":", "b">>)
    /\ pPath = <<"/", "a", "/", "1", "/", "b", "/", "2">>
    /\ Bound.m[<<"b">>] = <<"2">>

\* The template text the variables are looked for in: the template less
\* the star of a trailing "/*".
Body(s) == IF s.wildcard THEN WithoutStar(s.raw) ELSE s.raw

\* The positions (0-based) of Body(s) at which a variable is introduced: a
\* break character, a colon, and at least one character of a name.
VarIntro(s) ==
    {p \in 0..(Len(Body(s)) - 3) :
        /\ At(Body(s), p) \in bc
        /\ At(Body(s), p + 1) = ":"
        /\ At(Body(s), p + 2) \notin bc}

\* C13: for every template pattern, Prefix() returns exactly the literal
\* text that precedes the first variable, up to and including the break
\* character before its colon, or the whole literal template (without the
\* trailing star) when the template has no variable.
C13_PrefixIsLeadingLiteral ==
    (pOp = "Prefix" /\ pPat.kind = "string") =>
        IF VarIntro(pPat) = {}
        THEN /\ Len(pPat.pats) = 0
             /\ pRes = Body(pPat)
        ELSE LET p == First(VarIntro(pPat))
             IN  /\ Len(pPat.pats) > 0
                 /\ pRes = Slice(Body(pPat), 0, p + 1)
                 /\ HasPrefix(pPat.raw, pRes \o <<":">> \o pPat.pats[1])

C13_Witness ==
    /\ pOp = "Prefix"
    /\ TemplateIs(<<"/", "u", "/", ":", "u", "/", "f", "/", "*">>)
    /\ pRes = <<"/", "u", "/">>

\* Some alternative of the expression matches with its first character at
\* the first character of the path (its own anchors aside, which hold there).
MatchesAtStart(re, path) ==
    \E k \in 1..Len(Branches(re)) : MatchPieces(Branches(re)[k], 1, path, 0, <<>>).ok

HelloOrWorld ==
    ParseRegexpPattern(Alt(Regexp(FALSE, <<Lit("/"), Lit("a")>>, FALSE),
                           Regexp(FALSE, <<Lit("/"), Lit("w")>>, FALSE)))

\* C14: a regex pattern built from any regular expression, whatever its
\* shape (a top-level alternation included), matches a path only when the
\* expression matches starting at the first character of the path; the
\* unanchored /a matches /a, /a/ and /a/w but neither /e nor /w/a.
C14_MatchesAtStartOnly ==
    (pOp \in {"Match", "Run"} /\ pPat.kind = "regexp") =>
        /\ pRes = TRUE <=> MatchesAtStart(pPat.re, pPath)
        /\ pPat = ParseRegexpPattern(Regexp(FALSE, <<Lit("/"), Lit("a")>>, FALSE)) =>
              /\ pPath \in {<<"/", "a">>, <<"/", "a", "/">>, <<"/", "a", "/", "w">>}
                    => pRes = TRUE
              /\ pPath \in {<<"/", "e">>, <<"/", "w", "/", "a">>} => pRes = FALSE

\* C14 for the expressions whose top level is not an alternation.
C14_SingleAlternative ==
    (pOp \in {"Match", "Run"} /\ pPat.kind = "regexp" /\ pPat.re.or = <<>>) =>
        (pRes = TRUE <=> MatchesAtStart(pPat.re, pPath))

C14_AlternationMatchesInside ==
    /\ pOp = "Match"
    /\ pPat = HelloOrWorld
    /\ pPath = <<"/", "m", "/", "w">>
    /\ pRes = TRUE

RanRegexp == pOp = "Run" /\ pRes = TRUE /\ pPat.kind = "regexp"

\* The capture groups of the expression in the order of their opening
\* parentheses: group i is element i.
Groups(p) == BranchCaptures(Branches(p.re), 1)

\* The key of capture group i: its declared name, or "$" and the decimal of
\* its index when it has none.
GroupKey(p, i) ==
    IF Groups(p)[i].name # <<>> THEN Groups(p)[i].name ELSE <<"$", Digits[i + 1]>>

\* C15: Run on a matching regex pattern binds each capture group under its
\* declared name if it is named and under "$i" if it is not, i being the
\* group's 1-based index counted over all groups, named or not; the value is
\* the text of that group and group 0 (the whole match) is never bound.
C15_GroupKeys ==
    (RanRegexp /\ Len(Groups(pPat)) > 0) =>
        LET n     == Len(Groups(pPat))
            found == FindStringSubmatch(pPat.re, pPath)
        IN  /\ DOMAIN Bound.m = {GroupKey(pPat, i) : i \in 1..n}
            /\ \A i \in 1..n : Bound.m[GroupKey(pPat, i)] = found.groups[i + 1]
            /\ <<"$", "0">> \notin DOMAIN Bound.m
            /\ <<>> \notin DOMAIN Bound.m

C15_Witness ==
    /\ RanRegexp
    /\ pPath = <<"/", "a", "/", "1", "/", "2">>
    /\ Bound.m = (<<"n">> :> <<"a">>) @@ (<<"$", "2">> :> <<"1">>) @@ (<<"b">> :> <<"2">>)

\* The capture groups that took part in the match of path, by index.  A
\* group of the expressions modelled captures one character or more when
\* it takes part; FindStringSubmatch reports "" for one that does not.
TookPart(p, path) ==
    {i \in 1..Len(Groups(p)) : FindStringSubmatch(p.re, path).groups[i + 1] # <<>>}

\* C29: Run on a matching regex pattern binds one entry per capture group
\* that took part in the match; a capture group that did not take part (an
\* optional group that matched nothing, a group of another alternative)
\* has no key in the URL-parameter map.
C29_OnlyParticipatingBound ==
    (RanRegexp /\ Len(Groups(pPat)) > 0) =>
        DOMAIN Bound.m = {GroupKey(pPat, i) : i \in TookPart(pPat, pPath)}

\* The part of C29 the code keeps: every group that took part is bound to
\* its text, and a group that did not is bound to the empty string.
C29_ParticipatingBound ==
    (RanRegexp /\ Len(Groups(pPat)) > 0) =>
        \A i \in 1..Len(Groups(pPat)) :
            /\ GroupKey(pPat, i) \in DOMAIN Bound.m
            /\ Bound.m[GroupKey(pPat, i)] = FindStringSubmatch(pPat.re, pPath).groups[i + 1]
            /\ i \notin TookPart(pPat, pPath) => Bound.m[GroupKey(pPat, i)] = <<>>

\* Run has bound the group of an optional part that matched nothing.
C29_AbsentGroupBound ==
    /\ RanRegexp
    /\ pPath = <<"/", "a", "/">>
    /\ TookPart(pPat, pPath) = {}
    /\ Bound.m = (<<"n">> :> <<>>)

\* C30: Run on a request whose path does not match the pattern leaves the
\* context unchanged, for templates and for regular expressions: no
\* URL-parameter entry is added, not even for the variables that were
\* scanned before the mismatch was found.
C30_MismatchLeavesContext ==
    (pOp = "Run" /\ pRes = FALSE) =>
        /\ pCtx = Background
        /\ GetURLParams(pCtx) = NilMap

C30_Witness ==
    /\ pOp = "Run"
    /\ pRes = FALSE
    /\ pPat.kind = "string"
    /\ Len(pPat.pats) = 2
    /\ DOMAIN MatchVars(pPat, 0, pPath, MakeMap, FALSE).matches.m = {pPat.pats[1]}
    /\ pCtx = Background

(***************************************************************************)
(* Properties of the route builder.  They read rd, the outcome of the last *)
(* RouteDefs call, against the builders as they are, rd being cleared by   *)
(* every later registration.                                               *)
(***************************************************************************)
\* The positions of the sub-builder entries of builder n.
SubEntries(n) == {i \in 1..Len(builders[n].specs) : builders[n].specs[i].kind = "builder"}

\* The builders attached to builder n.
Kids(n) == {builders[n].specs[i].builder : i \in SubEntries(n)}

RECURSIVE Closure(_, _)
Closure(S, k) == IF k = 0 THEN S ELSE Closure(S \cup UNION {Kids(n) : n \in S}, k - 1)

\* The builders reachable from n, n included.
Reach(n) == Closure({n}, Len(builders))

\* The builders reachable from n through one attachment or more.
Below(n) == Closure(Kids(n), Len(builders))

\* Some builder reachable from n is its own direct or transitive child.
HasCycle(n) == \E b \in Reach(n) : b \in Below(b)

Flattened == rd.res = "ok"

\* The builder a route was declared on: handlers are unique.
Owner(def) ==
    CHOOSE b \in 1..Len(builders) :
        \E i \in 1..Len(builders[b].specs) :
            builders[b].specs[i].kind = "route" /\ builders[b].specs[i].handler = def.Handler

\* The entry that attaches builder n, within the builders of the traversal.
Attach(n) ==
    CHOOSE e \in {[parent |-> p, i |-> i] : p \in Reach(rd.root), i \in 1..MaxSpecs} :
        /\ e.i \in SubEntries(e.parent)
        /\ builders[e.parent].specs[e.i].builder = n

AttachedBy(n) == builders[Attach(n).parent].specs[Attach(n).i]

\* The enclosing builders of n from the root of the traversal down, n last.
RECURSIVE Enclosing(_)
Enclosing(n) ==
    IF n = rd.root THEN <<n>> ELSE Append(Enclosing(Attach(n).parent), n)

\* The position in Enclosing(n) of the innermost builder attached with
\* Mount, or 1 (the root) when there is none.
Boundary(n) ==
    LET path == Enclosing(n)
        cut  == {k \in 2..Len(path) : ~AttachedBy(path[k]).inherit}
    IN  IF cut = {} THEN 1 ELSE CHOOSE k \in cut : \A j \in cut : j <= k

RECURSIVE MiddlewareAlong(_, _, _)
MiddlewareAlong(path, from, to) ==
    IF from > to THEN <<>>
    ELSE builders[path[from]].middleware \o MiddlewareAlong(path, from + 1, to)

Range(s) == {s[i] : i \in 1..Len(s)}

\* C16: in the flattened list a route inside a child created by Group or
\* Route carries the middleware of every enclosing builder, outermost
\* first, followed by the child's own; a route inside a subtree attached
\* with Mount carries the middleware registered from the mount boundary
\* down only, and none of the mounting builder or of its ancestors.
C16_MountCutsInheritance ==
    Flattened =>
        \A d \in 1..Len(rd.defs) :
            LET def  == rd.defs[d]
                path == Enclosing(Owner(def))
                cut  == Boundary(Owner(def))
            IN  /\ def.Middleware = MiddlewareAlong(path, cut, Len(path))
                /\ \A k \in 1..(cut - 1) :
                       Range(builders[path[k]].middleware) \cap Range(def.Middleware) = {}

C16_Witness ==
    /\ Flattened
    /\ \E d, e \in 1..Len(rd.defs) :
          /\ Boundary(Owner(rd.defs[d])) = 2
          /\ builders[rd.root].middleware # <<>>
          /\ rd.defs[d].Middleware # <<>>
          /\ Owner(rd.defs[e]) # rd.root
          /\ Boundary(Owner(rd.defs[e])) = 1
          /\ rd.defs[e].Middleware = builders[rd.root].middleware

\* C17: RouteDefs on a builder graph in which some builder is attached as
\* its own direct or transitive child always terminates and raises the
\* cycle error: it neither recurses without end nor returns a route list.
\* No call of RouteDefs recurses without end.
C17_CycleRaisesError ==
    /\ rd.res # "diverged"
    /\ (rd.res # "none" /\ HasCycle(rd.root)) => rd.res = "panic"

C17_Witness ==
    /\ rd.res = "panic"
    /\ \E b \in Reach(rd.root) : b # rd.root /\ rd.root \in Kids(b)

\* The middleware a builder of the traversal inherits: that of its
\* ancestors, outermost first, when it was attached by Group or Route, and
\* none when it is the root or was attached by Mount.
RECURSIVE Inherited(_)
Inherited(n) ==
    IF n = rd.root \/ ~AttachedBy(n).inherit THEN <<>>
    ELSE Inherited(Attach(n).parent) \o builders[Attach(n).parent].middleware

\* The number of the Use call that registered a middleware value.
UseNumber(m) == CHOOSE k \in 1..Len(BuilderMiddleware) : BuilderMiddleware[k] = m

\* C18: for every route emitted by RouteDefs the middleware list is the
\* inherited ancestor middleware, outermost ancestor first, followed by all
\* the middleware registered on the route's own builder, in Use order,
\* whether Use was called before or after the route was declared.
C18_InheritedThenOwn ==
    Flattened =>
        \A d \in 1..Len(rd.defs) :
            LET def == rd.defs[d]
                own == builders[Owner(def)].middleware
            IN  /\ def.Middleware = Inherited(Owner(def)) \o own
                /\ \A i, j \in 1..Len(own) : i < j => UseNumber(own[i]) < UseNumber(own[j])

C18_Witness ==
    /\ Flattened
    /\ \E d \in 1..Len(rd.defs) :
          /\ builders[Owner(rd.defs[d])].late
          /\ Inherited(Owner(rd.defs[d])) # <<>>
          /\ Len(rd.defs[d].Middleware) = 2

\* C19: middleware registered with Use inside a Group or Route child
\* applies only to the routes of that child and of its descendants: routes
\* declared on the parent, before or after the group, and routes of sibling
\* groups do not receive it.
C19_GroupMiddlewareStaysInside ==
    Flattened =>
        \A g \in 1..Len(builders), d \in 1..Len(rd.defs) :
            (builders[g].made = "Route"
             /\ Range(builders[g].middleware) \cap Range(rd.defs[d].Middleware) # {})
                => Owner(rd.defs[d]) \in Reach(g)

C19_Witness ==
    /\ Flattened
    /\ Len(rd.defs) = 3
    /\ \E g \in Kids(rd.root) :
          /\ builders[g].made = "Route"
          /\ builders[g].middleware # <<>>
          /\ Owner(rd.defs[1]) = rd.root
          /\ Owner(rd.defs[2]) = g
          /\ Owner(rd.defs[3]) = rd.root
          /\ rd.defs[2].Middleware # <<>>
          /\ rd.defs[1].Middleware = <<>>
          /\ rd.defs[3].Middleware = <<>>

(***************************************************************************)
(* Properties of the router.                                               *)
(***************************************************************************)
Dispatching(t) == th[t].op = "ServeHTTP"

\* The positions, in the list of the request's method, of the routes whose
\* pattern matches the request's path.
Matching(t) ==
    LET rs == routes[th[t].method]
    IN  {i \in 1..Len(rs) : StringPatternMatch(rs[i].pattern, th[t].path, Background).ok}

\* C1: a dispatch calls Match on the routes of the request's method only, in
\* registration order, up to the first route that matches; the chain it
\* checks out and runs is that route's, ending in that route's handler, even
\* when a later route matches too.
C1_FirstMatchWins ==
    \A t \in Threads : Dispatching(t) =>
        LET rs == routes[th[t].method]
        IN  /\ th[t].found = (Matching(t) # {})
            /\ Matching(t) = {} => th[t].examined = [i \in 1..Len(rs) |-> rs[i].mware]
            /\ Matching(t) # {} =>
                  LET first == First(Matching(t))
                  IN  /\ th[t].examined = [i \in 1..first |-> rs[i].mware]
                      /\ th[t].sid = rs[first].mware
                      /\ Holding(t) => items[th[t].item].Handler.final = rs[first].handler
                      /\ th[t].served.called =>
                            th[t].served.calls[Len(th[t].served.calls)] = rs[first].handler

C1_Witness ==
    \E t \in Threads :
        /\ Dispatching(t)
        /\ Cardinality(Matching(t)) = 2
        /\ th[t].pc = "release"
        /\ th[t].served.called

\* C2: a dispatch whose method has no matching route (or no route at all)
\* checks out no chain and runs no handler; it ends with exactly one
\* not-found outcome: the configured NotFound handler on a context without
\* URL parameters, or the standard 404 when none is configured.
C2_NotFoundOnce ==
    \A t \in Threads : (Dispatching(t) /\ Matching(t) = {}) =>
        /\ th[t].pc \in {"notfound", "done"}
        /\ th[t].item = NoItem
        /\ th[t].served = NoCall
        /\ th[t].pc = "notfound" => th[t].nf = <<>>
        /\ th[t].pc = "done" =>
              /\ Len(th[t].nf) = 1
              /\ th[t].nf[1].kind = IF NotFound THEN "NotFound" ELSE "http.NotFound"
              /\ th[t].nf[1].ctx = Background
              /\ GetURLParams(th[t].nf[1].ctx) = NilMap

C2_Witness ==
    \E t \in Threads :
        /\ Dispatching(t)
        /\ th[t].pc = "done"
        /\ routes[th[t].method] # <<>>
        /\ NotFound
        /\ Len(th[t].nf) = 1

\* The last character of the request's path.
LastOf(t) == th[t].path[Len(th[t].path)]

\* C3: the terminal handler of the matched route is called with a context
\* whose URL parameters are exactly what the route's pattern binds for the
\* request's path: /a/:x binds x to the last segment, /:y/b binds y to the
\* first.
C3_HandlerSeesBindings ==
    \A t \in Threads : (Dispatching(t) /\ th[t].served.called) =>
        LET p      == RouteOf(t).pattern
            params == GetURLParams(th[t].served.ctx)
        IN  /\ params = GetURLParams(StringPatternRun(p, th[t].path, Background).ctx)
            /\ DOMAIN params.m = {p.pats[i] : i \in 1..Len(p.pats)}
            /\ p.raw = <<"/", "a", "/", ":", "x">> => params.m = (<<"x">> :> <<LastOf(t)>>)
            /\ p.raw = <<"/", ":", "y", "/", "b">> => params.m = (<<"y">> :> <<"a">>)

C3_Witness ==
    \E t \in Threads :
        /\ Dispatching(t)
        /\ th[t].served.called
        /\ RouteOf(t).pattern.raw = <<"/", ":", "y", "/", "b">>
        /\ GetURLParams(th[t].served.ctx).m = (<<"y">> :> <<"a">>)

\* C7: no StackItem is checked out by two dispatches at once, and while a
\* dispatch runs its chain the item's context slot holds the URL parameters
\* bound from that dispatch's own path, whatever a concurrent request on
\* the same route binds.
C7_NoSharedItem ==
    /\ \A t, u \in Threads : (t # u /\ Holding(t) /\ Holding(u)) => th[t].item # th[u].item
    /\ \A t \in Threads : (Dispatching(t) /\ th[t].pc \in {"serve", "release"}) =>
          LET slot == IF th[t].pc = "serve" THEN items[th[t].item].Context
                      ELSE th[t].served.ctx
          IN  (th[t].pc = "serve" \/ th[t].served.called) =>
                  \A k \in DOMAIN GetURLParams(slot).m :
                      k = <<"x">> => GetURLParams(slot).m[k] = <<LastOf(t)>>

C7_Witness ==
    \E t, u \in Threads :
        /\ t # u
        /\ th[t].sid = th[u].sid
        /\ th[t].pc = "serve" /\ th[u].pc = "serve"
        /\ th[t].path # th[u].path
        /\ MapHas(GetURLParams(items[th[t].item].Context), <<"x">>)
        /\ MapHas(GetURLParams(items[th[u].item].Context), <<"x">>)

(***************************************************************************)
(* Properties of the middleware stack.                                     *)
(***************************************************************************)
\* The Get of thread t met no Push or Remove, and none has started since.
Undisturbed(t) == th[t].quiet /\ ~th[t].early /\ stacks[th[t].sid].mu = NoThread

IsPrefix(p, s) == Len(p) <= Len(s) /\ SubSeq(s, 1, Len(p)) = p

\* C4: on a stack that has seen registrations only (New's list and Push),
\* a chain whose middleware all call their inner handler runs the pre-logic
\* of the middleware in registration order and then the terminal handler:
\* always for an initial stretch of the registered list, and for the whole
\* list when no Push ran during or after the Get.
C4_RegistrationOrder ==
    \A t \in Threads :
        LET m == stacks[th[t].sid]
        IN  (th[t].op = "client" /\ th[t].served.passed /\ ~m.removed) =>
                LET calls == th[t].served.calls
                    mws   == SubSeq(calls, 1, Len(calls) - 1)
                IN  /\ calls[Len(calls)] = m.final
                    /\ IsPrefix(mws, m.reg)
                    /\ Undisturbed(t) => mws = m.reg
                    /\ \A i \in 1..Len(m.reg) : m.reg[i] \in ValidMiddlewares

C4_Witness ==
    \E t \in Threads :
        /\ th[t].op = "client"
        /\ Undisturbed(t)
        /\ stacks[th[t].sid].budget = 0
        /\ ~stacks[th[t].sid].removed
        /\ th[t].served.calls = <<"m1", "m2", "final">>

\* C5: once a Remove of a registered middleware has returned nil, a chain
\* obtained by a later Get runs the middleware still registered, in their
\* original order, and then the terminal handler.
C5_RemoveTakesEffect ==
    \A t \in Threads :
        LET m == stacks[th[t].sid]
        IN  (th[t].op = "client" /\ th[t].served.passed /\ Undisturbed(t)
             /\ m.removed /\ ~m.stray) =>
                th[t].served.calls = Append(m.reg, m.final)

\* C6: a Get that begins after a Push or Remove has returned never hands out
\* a chain composed before that return, and no such chain sits in the
\* current pool: the old pool's chains are gone with it, and a chain
\* released late is not placed in the new pool.
C6_NoStaleChain ==
    /\ \A t \in Threads : (Holding(t) /\ items[th[t].item].old) => th[t].early
    /\ \A s \in DOMAIN stacks : \A it \in pools[stacks[s].cache] : ~items[it].old

C6_Witness ==
    \E t, u \in Threads :
        /\ Holding(t) /\ th[t].early /\ items[th[t].item].old
        /\ Holding(u) /\ ~th[u].early /\ ~items[th[u].item].old

\* The arguments of the Handle call that registered a handler.
HandleCall(handler) == HandleInputs[(handler % Len(HandleInputs)) + 1]

C22_RoutePrefixApplied ==
    Flattened =>
        \A d \in 1..Len(rd.defs) :
            LET def == rd.defs[d]
                n   == Owner(def)
            IN  (n # rd.root /\ AttachedBy(n).inherit) =>
                    def.Pattern = AttachedBy(n).pattern \o HandleCall(def.Handler).pattern

\* The part of C22 the code keeps: the routes of a Group child, whose
\* prefix is empty, are emitted with the pattern given to Handle.
C22_GroupKeepsPattern ==
    Flattened =>
        \A d \in 1..Len(rd.defs) :
            LET def == rd.defs[d]
                n   == Owner(def)
            IN  (n # rd.root /\ AttachedBy(n).inherit /\ AttachedBy(n).pattern = <<>>) =>
                    def.Pattern = AttachedBy(n).pattern \o HandleCall(def.Handler).pattern

\* A middleware value of an accepted shape.
Recognized(mw) == makeCanonical(mw).ok

\* The values a stack holds: the original values and the canonical functions.
Held(m) == Range(m.orig) \cup {m.funcs[i].mw : i \in DOMAIN m.funcs}

\* The routes of the router, when New returned one.
RouteTable ==
    IF routes = NoRouter THEN {}
    ELSE UNION {Range(routes[method]) : method \in DOMAIN routes}

\* C20: a middleware, handler or pattern value of an unrecognized type is
\* rejected when the stack or the router is built: no stack holds such a
\* middleware, no route holds such a handler, and the router a panicking New
\* was to build does not exist.
C20_UnrecognizedNeverAccepted ==
    /\ \A s \in DOMAIN stacks : \A mw \in Held(stacks[s]) : Recognized(mw)
    /\ \A r \in RouteTable : MakeHandler(r.handler).ok

\* The part of C20 the code keeps: the functions a chain is composed of, and
\* the handlers of the route table, are of recognized values only, so no
\* unrecognized value is met at dispatch.
C20_NothingDeferredToDispatch ==
    /\ \A s \in DOMAIN stacks : \A i \in DOMAIN stacks[s].funcs :
           Recognized(stacks[s].funcs[i].mw)
    /\ \A r \in RouteTable : MakeHandler(r.handler).ok
    /\ routes = NoRouter => \A t \in Threads : th[t].op # "ServeHTTP"

\* A recovered Push of an unrecognized value has left it in the stack's list
\* of original values.
C20_RejectedValueKept ==
    \E s \in DOMAIN stacks :
        /\ \E i \in DOMAIN stacks[s].orig : ~Recognized(stacks[s].orig[i])
        /\ Len(stacks[s].orig) > Len(stacks[s].funcs)

\* A New that was given an unrecognized value has panicked and built nothing.
C20_NewPanicked == routes = NoRouter /\ stacks = <<>>

\* The chains of the current pool of a stack that were not composed from the
\* list of functions the stack holds now.
StaleInPool(s) ==
    {it \in pools[stacks[s].cache] : items[it].Handler # newResolved(stacks[s]).Handler}

\* C23: in every state of a middleware stack, the states between the update
\* of the function list and the swap of the pool inside Push and Remove
\* included, every chain held in the current pool was composed from the
\* current function list.
C23_PoolFromCurrentList ==
    \A s \in DOMAIN stacks : StaleInPool(s) = {}

\* The part of C23 the code keeps: while no Push or Remove holds the lock,
\* the current pool holds chains of the current function list only.
C23_PoolFromCurrentListUnlocked ==
    \A s \in DOMAIN stacks : stacks[s].mu = NoThread => StaleInPool(s) = {}

\* A Get that began after the list update of a Push or Remove in progress
\* holds a chain that is not composed from the function list.
C23_StaleChainHandedOut ==
    \E t \in Threads :
        /\ th[t].op = "client" /\ th[t].pc = "serve"
        /\ stacks[th[t].sid].mu # NoThread
        /\ items[th[t].item].pool = stacks[th[t].sid].cache
        /\ items[th[t].item].Handler # newResolved(stacks[th[t].sid]).Handler

\* The Get of thread t has returned and its caller has not touched the item.
GotItem(t) == th[t].op = "ServeHTTP" /\ th[t].pc = "run"

\* C24: every StackItem returned by Get, freshly composed or reused from
\* the pool, has its Context equal to the stack's base context: nothing an
\* earlier request bound survives Release and the next checkout.
C24_ContextIsBase ==
    \A t \in Threads :
        GotItem(t) => items[th[t].item].Context = stacks[th[t].sid].BaseContext

C24_Witness ==
    \E t \in Threads :
        /\ GotItem(t)
        /\ items[th[t].item].used
        /\ items[th[t].item].Context = stacks[th[t].sid].BaseContext

\* A Remove(mw) call that returns ErrMiddlewareNotFound and leaves the
\* stack, the pools and the chains as they were.
RemoveChangesNothing(t, mw) ==
    /\ removeLists(stacks[1], mw).res = "notfound"
    /\ UNCHANGED <<stacks, pools, items>>
    /\ th'[t] = Idle

\* C25: Remove of a middleware that is not in the stack returns
\* ErrMiddlewareNotFound and changes nothing: the function list keeps its
\* contents and order, the pool is not swapped, and the chains cached before
\* the call stay in the pool for later Gets.
C25_RemoveAbsentChangesNothing ==
    [][\A t \in Threads, mw \in Middlewares :
          (RemoveCall(t, mw) /\ mw \notin Range(stacks[1].reg))
              => RemoveChangesNothing(t, mw)]_vars

\* The part of C25 the code keeps: on a stack no Push has panicked on,
\* Remove of a middleware that is not in the stack changes nothing.
C25_RemoveAbsentInStep ==
    [][\A t \in Threads, mw \in Middlewares :
          (RemoveCall(t, mw) /\ mw \notin Range(stacks[1].reg)
           /\ (\A i \in DOMAIN stacks[1].orig : Recognized(stacks[1].orig[i])))
              => RemoveChangesNothing(t, mw)]_vars

\* The goroutines between the list update and the pool swap of a Push or
\* Remove.
Mutating == {t \in Threads : th[t].pc = "reset"}

\* The middleware of the function list, in order.
FuncsOf(m) == [i \in DOMAIN m.funcs |-> m.funcs[i].mw]

\* The stack holds no value a Push rejected, and no Remove has deleted the
\* function of one.
NoneRejected(m) ==
    /\ \A i \in DOMAIN m.orig : Recognized(m.orig[i])
    /\ ~m.stray

ItemLeft(t) ==
    \/ pools[th[t].c] # {}
    \/ ItemIds \ ({th[u].item : u \in Threads} \cup UNION {pools[p] : p \in DOMAIN pools}) # {}

\* The next step of the Get or Release thread t is in can be taken.
CanStep(t) ==
    /\ th[t].pc = "get" => ENABLED GetRead(t)
    /\ (th[t].pc = "pool" /\ ItemLeft(t)) => ENABLED GetPool(t)
    /\ th[t].pc = "release" => ENABLED ReleaseReset(t)
    /\ th[t].pc = "put" => ENABLED ReleasePut(t)
    /\ th[t].pc = "clear" => ENABLED ReleaseClear(t)

\* C27: Get and Release never acquire the mutation lock: whoever holds the
\* lock, a goroutine inside Get or Release can take its next step, so a
\* chain is checked out, run and returned while another goroutine is inside
\* Push or Remove.
C27_GetReleaseTakeNoLock ==
    \A t \in Threads : CanStep(t)

C27_Witness ==
    \E t \in Threads :
        /\ th[t].op = "client"
        /\ th[t].pc = "clear"
        /\ th[t].locked
        /\ LockedOut(t)

\* What a dispatch on a matching route does with item it of stack sid.
DispatchCalls(sid, it) ==
    [k \in 1..4 |-> [call |-> <<"Get", "Run", "ServeHTTP", "Release">>[k],
                     sid |-> sid, item |-> it]]

\* C28: a dispatch that finds a matching route performs, in this order and
\* exactly once each, Get on that route's stack, Run into the context of
\* the item it checked out, the call of the chain and Release of the same
\* item; a request that matches nothing, and the routes that do not match,
\* check out no chain.
C28_GetRunServeRelease ==
    \A t \in Threads : Dispatching(t) =>
        LET rs  == routes[th[t].method]
            log == th[t].log
        IN  /\ Matching(t) = {} => (log = <<>> /\ th[t].item = NoItem)
            /\ Matching(t) # {} =>
                  \E it \in ItemIds :
                      LET all == DispatchCalls(rs[First(Matching(t))].mware, it)
                      IN  /\ IsPrefix(log, all)
                          /\ th[t].pc = "done" => log = all
                          /\ Holding(t) => th[t].item = it
                          /\ th[t].pc = "serve" => Len(log) = 2
                          /\ th[t].served.called => Len(log) >= 3

C28_Witness ==
    \E t \in Threads :
        /\ Dispatching(t)
        /\ th[t].pc = "done"
        /\ Cardinality(Matching(t)) = 1
        /\ First(Matching(t)) = 2
        /\ Len(th[t].log) = 4

(***************************************************************************)
(* Further properties of the patterns.                                     *)
(***************************************************************************)
Matched == pOp = "Match" /\ pRes = TRUE

\* C31: for every pattern, template or regular expression, and every path,
\* if Match succeeds then the path begins with the pattern's Prefix().
C31_PrefixOfEveryMatch ==
    Matched => HasPrefix(pPath, PatternPrefix(pPat))

\* The part of C31 the code keeps: the templates, and the expressions whose
\* top level is not an alternation.
C31_PrefixOfMatchOneAlternative ==
    (Matched /\ (pPat.kind = "string" \/ Len(Branches(pPat.re)) = 1)) =>
        HasPrefix(pPath, PatternPrefix(pPat))

\* Match has accepted a path that does not begin with the prefix.
C31_MatchWithoutPrefix ==
    /\ Matched
    /\ pPat.kind = "regexp"
    /\ PatternPrefix(pPat) = <<"/", "a", "/">>
    /\ pPath = <<"/", "m", "/", "a", "/", "w">>

(***************************************************************************)
(* Further properties of the route builder.                                *)
(***************************************************************************)
\* The position of a route in its own builder's specs.
RouteIndex(def) ==
    CHOOSE i \in 1..Len(builders[Owner(def)].specs) :
        /\ builders[Owner(def)].specs[i].kind = "route"
        /\ builders[Owner(def)].specs[i].handler = def.Handler

\* The place of a route in the tree: the positions of the entries that lead
\* from the root of the traversal to it, the route's own position last.
RECURSIVE PlaceOfBuilder(_)
PlaceOfBuilder(n) ==
    IF n = rd.root THEN <<>> ELSE Append(PlaceOfBuilder(Attach(n).parent), Attach(n).i)

Place(def) == Append(PlaceOfBuilder(Owner(def)), RouteIndex(def))

\* a comes before b in depth-first order.
RECURSIVE Before(_, _)
Before(a, b) ==
    IF a = <<>> \/ b = <<>> THEN FALSE
    ELSE IF a[1] # b[1] THEN a[1] < b[1]
    ELSE Before(SubSeq(a, 2, Len(a)), SubSeq(b, 2, Len(b)))

\* The routes declared on the builders of the traversal.
RoutesBelow(n) ==
    {e \in {[b |-> b, i |-> i] : b \in Reach(n), i \in 1..MaxSpecs} :
        e.i <= Len(builders[e.b].specs) /\ builders[e.b].specs[e.i].kind = "route"}

\* C32: RouteDefs lists the routes in depth-first declaration order: the
\* entries of a node in the order of its Handle, Group, Route and Mount
\* calls, all routes of an attached child at the position where the child
\* was attached, between the parent's routes declared before and after it.
C32_DepthFirstOrder ==
    Flattened =>
        /\ Len(rd.defs) = Cardinality(RoutesBelow(rd.root))
        /\ \A i, j \in 1..Len(rd.defs) :
               i < j => Before(Place(rd.defs[i]), Place(rd.defs[j]))

C32_Witness ==
    /\ Flattened
    /\ Len(rd.defs) = 3
    /\ Place(rd.defs[1]) = <<1>>
    /\ Place(rd.defs[2]) = <<2, 1>>
    /\ Place(rd.defs[3]) = <<3>>
    /\ rd.defs[2].Handler < rd.defs[1].Handler

\* The entries, among the builders reachable from n, that attach builder b.
EntriesTo(n, b) ==
    {e \in {[parent |-> p, i |-> i] : p \in Reach(n), i \in 1..MaxSpecs} :
        e.i \in SubEntries(e.parent) /\ builders[e.parent].specs[e.i].builder = b}

\* Every builder reachable from n is reachable along exactly one path: n is
\* attached nowhere below itself and every other builder exactly once.
OnePathEach(n) ==
    \A b \in Reach(n) : Cardinality(EntriesTo(n, b)) = IF b = n THEN 0 ELSE 1

\* C33: RouteDefs fails with the cycle error whenever a builder is reached
\* a second time during one traversal, also in an acyclic graph in which the
\* same builder is mounted at two places; it returns a list only when every
\* builder is reachable along exactly one path.
C33_SecondVisitRaisesError ==
    rd.res # "none" =>
        /\ rd.res \in {"ok", "panic"}
        /\ rd.res = "panic" <=> ~OnePathEach(rd.root)

C33_Witness ==
    /\ rd.res = "panic"
    /\ ~HasCycle(rd.root)
    /\ \E b \in Reach(rd.root) :
          \E e, f \in EntriesTo(rd.root, b) : e.parent # f.parent

\* C37: RouteDefs does not modify the builder tree; a second call on the
\* same builder, with no builder operation in between, returns a list equal
\* to the first, and a tree that was flattened once does not raise the cycle
\* error on a later call.
C37_RouteDefsRepeatable ==
    [][\A r \in 1..MaxNodes :
          /\ RouteDefs(r) => builders' = builders
          /\ RouteDefsAgain(r) =>
                (builders' = builders /\ rd'.res = rd.res /\ rd'.defs = rd.defs)]_vars

\* A second call has returned the list of three routes again.
C37_Witness ==
    /\ rd.again /\ Flattened /\ Len(rd.defs) = 3
    /\ Cardinality(Reach(rd.root)) > 1

(***************************************************************************)
(* Further properties of the templates.                                    *)
(***************************************************************************)
\* The first n literals, each followed by the value of its variable.
RECURSIVE Joined(_, _, _)
Joined(s, vals, n) ==
    IF n = 0 THEN <<>>
    ELSE Joined(s, vals, n - 1) \o s.literals[n] \o vals[s.pats[n]]

\* The literals and the bound values in template order; for a wildcard
\* template the final literal less its last character, then the "*" value.
RoundTrip(s, vals) ==
    LET n    == Len(s.pats)
        tail == s.literals[n + 1]
    IN  IF s.wildcard
        THEN Joined(s, vals, n) \o SubSeq(tail, 1, Len(tail) - 1) \o vals[<<"*">>]
        ELSE Joined(s, vals, n) \o tail

\* The keys Run binds are distinct: no two variables share a name, and no
\* variable of a wildcard template is named "*".
DistinctKeys(s) == DistinctNames(s) /\ ~(s.wildcard /\ StarIsVariable(s))

C38_ParsedShape ==
    pPat.kind = "string" =>
        LET n == Len(pPat.pats)
        IN  /\ Len(pPat.literals) = n + 1
            /\ Len(pPat.breaks) = n
            /\ \A i \in 1..n : pPat.breaks[i] \in bc
            /\ \A i \in 1..n :
                  HasSuffix(Body(pPat), <<":">> \o pPat.pats[i]) => pPat.breaks[i] = "/"

C38_Witness ==
    /\ pPat.kind = "string" /\ pOp # "new"
    /\ Len(pPat.pats) = 2 /\ Len(pPat.literals) = 3
    /\ pPat.breaks = <<".", "/">>
    /\ HasSuffix(Body(pPat), <<":">> \o pPat.pats[2])

(***************************************************************************)
(* Further properties of the middleware stack.                             *)
(***************************************************************************)
\* C34: after any sequence of New, Push and Remove calls, a Push that
\* panicked and was recovered included, the original values and the
\* canonical functions have the same length and correspond position by
\* position.
C34_OrigAndFuncsInStep ==
    \A s \in DOMAIN stacks : stacks[s].orig = FuncsOf(stacks[s])

\* The two lists are in step on a stack that has seen no rejected Push.
C34_InStepWithoutRejected ==
    \A s \in DOMAIN stacks :
        NoneRejected(stacks[s]) => stacks[s].orig = FuncsOf(stacks[s])

\* The item of a user between its two Release calls.
Between(t) == th[t].pc = "again" /\ ~HeldByOther(t)

\* C35: a second Release of a StackItem that has not been checked out again
\* is a no-op: the item's context is the base context already and its pool
\* label differs from the current pool, so the call returns at the
\* comparison; an item is put in a pool at most once per checkout, and no
\* two goroutines have the same item checked out at the same time.
C35_SecondReleaseIsNoOp ==
    /\ \A t \in Threads :
          /\ Between(t) =>
                /\ items[th[t].item].Context = stacks[th[t].sid].BaseContext
                /\ Stale(items[th[t].item], stacks[th[t].sid])
          /\ th[t].op = "again" => (th[t].pc = "done" /\ th[t].res = "discarded")
    /\ \A it \in ItemIds : items[it].puts <= 1
    /\ \A t, u \in Threads : (Holding(t) /\ Holding(u) /\ th[t].item = th[u].item) => t = u

\* A second Release has returned, the item is in the current pool, and the
\* two goroutines get different items.
C35_Witness ==
    \E t, u \in Threads :
        /\ th[t].op = "again" /\ th[t].pc = "done"
        /\ pools[stacks[1].cache] # {}
        /\ th[u].op = "twice" /\ th[u].pc = "again"
        /\ th[u].item \in pools[stacks[1].cache]

====
